---- MODULE Spec2Model ----
(***************************************************************************)
(* Cameleer: the orchestration engine (Cameleer, CameleerJob) and the      *)
(* per-step executor (RunAttempt).                                         *)
(*                                                                         *)
(* The specifications of this module share its variables:                  *)
(*   SpecJob      one CameleerJob running its functional tasks through     *)
(*                RunAttempt (regular attempt, error config, recovery);    *)
(*   SpecStep     the same for a job of one step, from the canFail of the  *)
(*                step's definition and the defaults of the engine;        *)
(*   Spec         the engine: schedule firings, admission, interruption    *)
(*                window, submission to a queue, queue events, lifecycle;  *)
(*   SpecPause    the queues between run, pause and pauseWait;             *)
(*   SpecNew      the constructor and its queues;                          *)
(*   SpecLoad     loadTasks;                                               *)
(*   SpecReload   loadTasks, clearTasks and loadTasks again, with the      *)
(*                enabled option of the configuration objects;             *)
(*   SpecSelect   _selectBestMatchingQueue;                                *)
(*   SpecEnabled  the same over queues that are enabled or not;            *)
(*   SpecContext  the save timer of the static context, with time;         *)
(*   SpecRestart  the static context from one engine to the next.          *)
(* Every atomic action is one run-to-completion slice of the JavaScript    *)
(* event loop: from the resumption after an await (or the start of a       *)
(* callback) up to the next await.                                         *)
(***************************************************************************)
EXTENDS Integers, Sequences, FiniteSets, TLC

\* ------------------------------------------------------------------ bounds
MaxSteps == 2
MaxNumFails == 2
MaxFirings == 2
MaxInterval == 2
MaxWrites == 2
MaxInFlight == 2
MaxLoads == 2

VARIABLES
  \* ---- CameleerJob / RunAttempt
  jobPc,                \* "new" | "running" | "done" | "failed"
  tasks,                \* conf.tasks: the normalised canFail record of each step
  fTaskNumber,          \* 1-based number of the functional task in progress
  results,              \* CameleerJob._results
  funcTasksDone,        \* Len of CameleerJob._funcTasksDone
  jobError,             \* what the JobFailError wraps, <<>> while there is none
  raPc,                 \* "none" | "args" | "regular" | "errConf" | "recovery"
  regularAttemptFailed, \* RunAttempt.regularAttemptFailed
  numSubSequentFails,   \* RunAttempt.numSubSequentFails
  isAttempting,         \* closure flag of _runErroredBySchedule
  scheduleFailed,       \* closure flag of _runErroredBySchedule
  scheduleDrained,      \* closure flag of _runErroredBySchedule
  recSched,             \* the recovery schedule: registered, subscribed, ended
  outstanding,          \* invocations of the step body that have not returned
  stepLog,              \* per started step: invocations of its body, how it ended
  \* ---- Cameleer
  tasksLoaded,          \* Cameleer._tasks: the Task objects
  scheduled,            \* the tasks whose schedule is registered with a scheduler
  clearing,             \* clearTasks in progress: who called it, the tasks left
  paused,               \* per queue: JobQueue is paused
  backlog,              \* per queue: JobQueue.queue, the jobs waiting
  currentJobs,          \* per queue: JobQueue.currentJobs, the jobs running
  fpc,                  \* per firing: where its _enqueueTask call stands
  ftask,                \* per firing: the task that fired
  fconf,                \* per firing: job.conf between admission and submission
  jobState,             \* per firing: what became of its CameleerJob
  jobQueue,             \* per firing: the queue its job was added to
  jobCost,              \* per firing: job.cost of a submitted job
  numSubmitted,         \* per firing: calls of addJob
  runSub,               \* per firing: the subscription to observableRun
  raceSub,              \* per firing: the subscription to race(done, failed)
  workEvents,           \* per firing: the CameleerWorkEvents emitted for it
  interruptableJobs,    \* Cameleer._interruptableJobs: timers armed
  keepAliveInterval,    \* Cameleer._keepAliveInterval is armed
  staticContextSaveTimeout, \* Cameleer._staticContextSaveTimeout is armed
  pauseWaitOpen,        \* a pauseWait() call is waiting for an idle event
  shutdownPc,           \* "none" | "pauseWait" | "clearTasks" | "saving" | "resolved"
  \* ---- configuration
  queues,               \* config.queues as given to the constructor
  built,                \* "no" | "constructed" | "threw": new Cameleer(...)
  selection,            \* the last call of _selectBestMatchingQueue, if recorded
  allConfigs,           \* what the config provider's getAllTaskConfigs returns
  loadOutcome,          \* "no" | "resolved" | "rejected": the last loadTasks
  taskDefs,             \* config.tasks as the task defines it: canFail per step
  taskDefaults,         \* config.defaults.tasks, the engine's error config
  \* ---- the save timer of the static context, where time is followed
  serializeInterval,    \* defaults.staticTaskContextSerializeInterval, in ticks
  timeoutAge,           \* ticks since _staticContextSaveTimeout was armed
  quietFor,             \* ticks since the static context was last written to
  burstWrites,          \* writes to the static context in the current burst
  burstSaves,           \* saves by the timer since the current burst began
  \* ---- the static context and its file, where engine instances are followed
  instance,             \* the Cameleer instance at hand: 1, later 2
  staticTaskContext,    \* Cameleer._staticTaskContext: "null", or what it
                        \* holds under the key of the task
  file,                 \* staticTaskContext.json: what it holds for the task's key
  inFlight,             \* calls of fs.writeFile that have not completed
  stored,               \* the value the task stored last in instance 1
  seen,                 \* the value the task found when instance 2 loaded it
  \* ---- the enabled option of the task configurations, where it is followed
  enabledDefined,       \* per configuration: enabled as its author defined it
  enabledOption,        \* per configuration: what its enabled property holds
  enabledCalls          \* per loadTasks call and configuration: calls of the
                        \* function that enabled was defined as

jvars == <<jobPc, tasks, fTaskNumber, results, funcTasksDone, jobError, raPc,
           regularAttemptFailed, numSubSequentFails, isAttempting,
           scheduleFailed, scheduleDrained, recSched, outstanding, stepLog>>

evars == <<tasksLoaded, scheduled, clearing, paused, backlog, currentJobs, fpc,
           ftask, fconf, jobState, jobQueue, jobCost, numSubmitted, runSub, raceSub,
           workEvents, interruptableJobs, keepAliveInterval,
           staticContextSaveTimeout, pauseWaitOpen, shutdownPc>>

tvars == <<serializeInterval, timeoutAge, quietFor, burstWrites, burstSaves>>

svars == <<instance, staticTaskContext, file, inFlight, stored, seen>>

lvars == <<enabledDefined, enabledOption, enabledCalls>>

cvars == <<queues, built, selection, allConfigs, loadOutcome, taskDefs,
           taskDefaults, tvars, svars, lvars>>

vars == <<jvars, evars, cvars>>

\* ------------------------------------------------------------------ Result
Undefined == <<>>

ErrorResult(error) == <<error>>

Result(value, error) == [value |-> value, error |-> error]

isError(r) == r.error # Undefined

fromValue(value) == Result(value, Undefined)

\* Faulty variant: the error is stored as a plain value, without its ErrorResult.
fromError_Unwrapped(error) == Result(error, Undefined)

fromError(error) == Result(error, ErrorResult(error))

\* ------------------------------------------------------- step configuration
\* FunctionalTaskErrorConfigSchema: maxNumFails is an integer >= 0.
\* A step's canFail after _createFunctionalTaskFromDef, with a schedule that
\* is there; every field stands for the value it resolves to.
StepConfigs ==
  [skip : BOOLEAN, maxNumFails : 0..MaxNumFails, continueOnFinalFail : BOOLEAN,
   schedule : {"default"}]

TaskLists == UNION {[1..n -> StepConfigs] : n \in 0..MaxSteps}

\* defaults.tasks of the engine's configuration (CameleerDefaultsSchema): a
\* full error config, its schedule required.
ErrorDefaults ==
  [skip : BOOLEAN, maxNumFails : 0..MaxNumFails, continueOnFinalFail : BOOLEAN,
   schedule : {"default"}]

\* A canFail record as a task may define it: any of the four keys, a key that
\* is not there being Undefined and one that is there holding <<value>>.
PartialErrorConfigs ==
  [skip : {Undefined, <<TRUE>>, <<FALSE>>},
   maxNumFails : {Undefined} \cup {<<n>> : n \in 0..MaxNumFails},
   continueOnFinalFail : {Undefined, <<TRUE>>, <<FALSE>>},
   schedule : {Undefined, <<"own">>}]

NoKeys == [skip |-> Undefined, maxNumFails |-> Undefined,
           continueOnFinalFail |-> Undefined, schedule |-> Undefined]

\* def.canFail of a step: not there, a boolean, or a record.
StepDefs ==
  {[kind |-> "absent", bool |-> FALSE, rec |-> NoKeys]}
    \cup {[kind |-> "boolean", bool |-> b, rec |-> NoKeys] : b \in BOOLEAN}
    \cup {[kind |-> "record", bool |-> FALSE, rec |-> r] : r \in PartialErrorConfigs}

hasOwnProperty(rec, key) == rec[key] # Undefined

\* mergeObjects({}, obj, canFail): the keys of canFail override those of obj; a
\* canFail that is no object adds nothing.
mergeObjects(obj, def) ==
  IF def.kind = "record"
    THEN [key \in DOMAIN obj |->
            IF hasOwnProperty(def.rec, key) THEN def.rec[key][1] ELSE obj[key]]
    ELSE obj

\* Faulty variant: canFail = false keeps the retry budget of the defaults.
createFunctionalTaskErrorFromDef_KeepsBudget(def, configErrOrg) ==
  IF def.kind = "boolean"
    THEN [configErrOrg EXCEPT !.continueOnFinalFail = def.bool]
    ELSE mergeObjects(configErrOrg, def)

\* _createFunctionalTaskErrorFromDef for a canFail that is a record. Under the
\* key skip the code assigns obj.schedule = def.canFail.schedule, which is
\* undefined where the record has no schedule.
canFailFromRecord(def, configErrOrg) ==
  LET c == def.rec
      o1 == IF hasOwnProperty(c, "continueOnFinalFail")
              THEN [configErrOrg EXCEPT
                      !.continueOnFinalFail = c.continueOnFinalFail[1]]
              ELSE configErrOrg
      o2 == IF hasOwnProperty(c, "schedule")
              THEN [o1 EXCEPT !.schedule = c.schedule[1]]
              ELSE o1
      o3 == IF hasOwnProperty(c, "skip")
              THEN [o2 EXCEPT !.schedule =
                      IF hasOwnProperty(c, "schedule")
                        THEN c.schedule[1] ELSE "undefined"]
              ELSE o2
      o4 == IF hasOwnProperty(c, "maxNumFails")
              THEN [o3 EXCEPT !.maxNumFails = c.maxNumFails[1]]
              ELSE o3
  IN mergeObjects(o4, def)

\* Faulty variant: either boolean leaves the step without retries.
createFunctionalTaskErrorFromDef_NoRetries(def, configErrOrg) ==
  IF def.kind = "absent"
    THEN configErrOrg
    ELSE IF def.kind = "boolean"
      THEN [configErrOrg EXCEPT !.continueOnFinalFail = def.bool,
                                !.maxNumFails = 0]
      ELSE canFailFromRecord(def, configErrOrg)

\* _createFunctionalTaskErrorFromDef: the full canFail of a step.
createFunctionalTaskErrorFromDef(def, configErrOrg) ==
  IF def.kind = "absent"
    THEN configErrOrg
    ELSE IF def.kind = "boolean"
      THEN mergeObjects([configErrOrg EXCEPT
                           !.continueOnFinalFail = def.bool,
                           !.maxNumFails = IF def.bool THEN @ ELSE 0], def)
      ELSE canFailFromRecord(def, configErrOrg)

\* _resolveTasks: every step of the task's definition with its full canFail.
resolveTasks(defs, configErrOrg) ==
  [i \in 1..Len(defs) |-> createFunctionalTaskErrorFromDef(defs[i], configErrOrg)]

\* job.conf.tasks: resolved from the task's definition where that is followed,
\* any list of full step configurations otherwise.
ConfTasks ==
  IF taskDefs = Undefined
    THEN TaskLists
    ELSE {resolveTasks(taskDefs, taskDefaults)}

canFail == tasks[fTaskNumber]

NoSched == [registered |-> FALSE, subscribed |-> FALSE, ended |-> "no"]

\* ---------------------------------------------------------- CameleerJob
NewLog == [invocations |-> 0, dropped |-> FALSE, exit |-> "pending"]

LogInvoke(log) == [log EXCEPT ![Len(log)].invocations = @ + 1]

LogExit(log, exit) == [log EXCEPT ![Len(log)].exit = exit]

\* new RunAttempt(funcTaskConf, this): the constructor's fields; the closure
\* variables of _runErroredBySchedule do not exist yet.
RaFresh ==
  /\ raPc' = "args"
  /\ regularAttemptFailed' = FALSE
  /\ numSubSequentFails' = 0
  /\ isAttempting' = FALSE
  /\ scheduleFailed' = FALSE
  /\ scheduleDrained' = FALSE
  /\ recSched' = NoSched

\* The last RunAttempt of a job that ended, as it was left.
RaEnded(ra) ==
  /\ raPc' = "none"
  /\ regularAttemptFailed' = regularAttemptFailed
  /\ numSubSequentFails' = ra.fails
  /\ isAttempting' = FALSE
  /\ scheduleFailed' = ra.failed
  /\ scheduleDrained' = ra.drained
  /\ recSched' = ra.sched

RaNow == [fails |-> numSubSequentFails, failed |-> scheduleFailed,
          drained |-> scheduleDrained, sched |-> recSched]

\* Faulty variant: the Result is put in front of the earlier ones.
StepReturned_Unshift(res, exit, ra) ==
  /\ results' = <<res>> \o results
  /\ funcTasksDone' = funcTasksDone + 1
  /\ jobError' = jobError
  /\ IF fTaskNumber < Len(tasks)
       THEN /\ jobPc' = "running"
            /\ fTaskNumber' = fTaskNumber + 1
            /\ RaFresh
            /\ stepLog' = Append(LogExit(stepLog, exit), NewLog)
       ELSE /\ jobPc' = "done"
            /\ fTaskNumber' = fTaskNumber
            /\ RaEnded(ra)
            /\ stepLog' = LogExit(stepLog, exit)

\* The loop of _attempt after attempt.run() returned a Result: push it, go on
\* with the next functional task (a new RunAttempt, run up to its first
\* await) or return.
StepReturned(res, exit, ra) ==
  /\ results' = Append(results, res)
  /\ funcTasksDone' = funcTasksDone + 1
  /\ jobError' = jobError
  /\ IF fTaskNumber < Len(tasks)
       THEN /\ jobPc' = "running"
            /\ fTaskNumber' = fTaskNumber + 1
            /\ RaFresh
            /\ stepLog' = Append(LogExit(stepLog, exit),
                                 NewLog)
       ELSE /\ jobPc' = "done"
            /\ fTaskNumber' = fTaskNumber
            /\ RaEnded(ra)
            /\ stepLog' = LogExit(stepLog, exit)

\* Faulty variant: the catch of _attempt sits inside the loop, which goes on
\* with the next functional task.
StepThrew_GoesOn(errType, wrappedErr, ra) ==
  /\ UNCHANGED <<results, funcTasksDone>>
  /\ IF fTaskNumber < Len(tasks)
       THEN /\ jobPc' = "running"
            /\ jobError' = jobError
            /\ fTaskNumber' = fTaskNumber + 1
            /\ RaFresh
            /\ stepLog' = Append(LogExit(stepLog, errType), NewLog)
       ELSE /\ jobPc' = "failed"
            /\ jobError' = <<errType, wrappedErr>>
            /\ fTaskNumber' = fTaskNumber
            /\ RaEnded(ra)
            /\ stepLog' = LogExit(stepLog, errType)

\* The catch of _attempt: an AttemptError ends the job with a JobFailError.
StepThrew(errType, wrappedErr, ra) ==
  /\ jobPc' = "failed"
  /\ jobError' = <<errType, wrappedErr>>
  /\ RaEnded(ra)
  /\ stepLog' = LogExit(stepLog, errType)
  /\ UNCHANGED <<results, funcTasksDone, fTaskNumber>>

\* CameleerJob.run(): the queue starts the job; _attempt runs up to the first
\* await of the first RunAttempt.
JobStart ==
  /\ jobPc = "new"
  /\ \E ts \in ConfTasks :
       /\ tasks' = ts
       /\ IF Len(ts) = 0
            THEN /\ jobPc' = "done"
                 /\ raPc' = "none"
                 /\ stepLog' = <<>>
            ELSE /\ jobPc' = "running"
                 /\ raPc' = "args"
                 /\ stepLog' = <<NewLog>>
  /\ UNCHANGED <<fTaskNumber, results, funcTasksDone, jobError,
                 regularAttemptFailed, numSubSequentFails, isAttempting,
                 scheduleFailed, scheduleDrained, recSched, outstanding>>
  /\ UNCHANGED <<evars, cvars>>

\* ------------------------------------------------------------ RunAttempt
\* run(): the arguments resolved; wrapFunc() invokes the step body.
ArgsResolved ==
  /\ jobPc = "running" /\ raPc = "args"
  /\ raPc' = "regular"
  /\ outstanding' = outstanding + 1
  /\ stepLog' = LogInvoke(stepLog)
  /\ UNCHANGED <<jobPc, tasks, fTaskNumber, results, funcTasksDone, jobError,
                 regularAttemptFailed, numSubSequentFails, isAttempting,
                 scheduleFailed, scheduleDrained, recSched>>
  /\ UNCHANGED <<evars, cvars>>

\* run(): resolving the arguments threw.
ArgsFailed ==
  /\ jobPc = "running" /\ raPc = "args"
  /\ StepThrew("resolveArgs", "argsError", RaNow)
  /\ UNCHANGED <<tasks, outstanding>>
  /\ UNCHANGED <<evars, cvars>>

\* run(): the regular attempt returned a value.
RegularSucceeded ==
  /\ jobPc = "running" /\ raPc = "regular"
  /\ outstanding' = outstanding - 1
  /\ StepReturned(fromValue("value"), "ok", RaNow)
  /\ UNCHANGED tasks
  /\ UNCHANGED <<evars, cvars>>

\* run(): the regular attempt threw; _runErrored starts resolving errConf.
RegularFailed ==
  /\ jobPc = "running" /\ raPc = "regular"
  /\ outstanding' = outstanding - 1
  /\ regularAttemptFailed' = TRUE
  /\ raPc' = "errConf"
  /\ UNCHANGED <<jobPc, tasks, fTaskNumber, results, funcTasksDone, jobError,
                 numSubSequentFails, isAttempting, scheduleFailed,
                 scheduleDrained, recSched, stepLog>>
  /\ UNCHANGED <<evars, cvars>>

\* _runErrored: resolveErrorConfig threw.
ErrConfFailed ==
  /\ jobPc = "running" /\ raPc = "errConf"
  /\ StepThrew("resolveErrConf", "errConfError", RaNow)
  /\ UNCHANGED <<tasks, outstanding>>
  /\ UNCHANGED <<evars, cvars>>

\* _runErrored with the resolved error config: skip, zero budget, or the
\* recovery loop (_runErroredBySchedule adds the schedule and subscribes).
RunErrored(errConf) ==
  IF errConf.skip
    THEN StepReturned(fromError("thrown"), "skip", RaNow)
    ELSE IF errConf.maxNumFails = 0
      THEN StepThrew("finalFail", "thrown", RaNow)
      ELSE /\ raPc' = "recovery"
           /\ isAttempting' = FALSE
           /\ scheduleFailed' = FALSE
           /\ scheduleDrained' = FALSE
           /\ recSched' = [registered |-> TRUE, subscribed |-> TRUE, ended |-> "no"]
           /\ UNCHANGED <<jobPc, fTaskNumber, results, funcTasksDone, jobError,
                          regularAttemptFailed, numSubSequentFails, stepLog>>

\* resolveErrorConfig returned: Resolve.toValue(canFail.schedule, Schedule)
\* needs a schedule to resolve.
ErrConfResolved ==
  /\ jobPc = "running" /\ raPc = "errConf"
  /\ canFail.schedule # "undefined"
  /\ RunErrored(canFail)
  /\ UNCHANGED <<tasks, outstanding>>
  /\ UNCHANGED <<evars, cvars>>

\* this.unsubscribe() and finalFunc()
Released(sched) == [sched EXCEPT !.registered = FALSE, !.subscribed = FALSE]

\* Faulty variant: continueOnFinalFail is not consulted.
RecoveryRejected_AlwaysContinue(e, ra) ==
  StepReturned(fromError(e), "continue", ra)

\* The continuation of _runErrored once _runErroredBySchedule rejected.
RecoveryRejected(e, ra) ==
  IF canFail.continueOnFinalFail
    THEN StepReturned(fromError(e), "continue", ra)
    ELSE StepThrew("finalFail", e, ra)

\* Faulty variant: the isAttempting guard is missing.
RecoveryNext_NoGuard ==
  /\ isAttempting' = TRUE
  /\ outstanding' = outstanding + 1
  /\ stepLog' = LogInvoke(stepLog)

\* The next-handler of the recovery subscription: a firing of the schedule.
RecoveryNext ==
  IF isAttempting
    THEN /\ stepLog' = [stepLog EXCEPT ![Len(stepLog)].dropped = TRUE]
         /\ UNCHANGED <<isAttempting, outstanding>>
    ELSE /\ isAttempting' = TRUE
         /\ outstanding' = outstanding + 1
         /\ stepLog' = LogInvoke(stepLog)

\* The recovery schedule fires: the scheduler has it, it has not ended, and
\* the subscription of _runErroredBySchedule is there to be called.
RecoveryFiring ==
  /\ recSched.registered /\ recSched.subscribed /\ recSched.ended = "no"
  /\ RecoveryNext
  /\ UNCHANGED <<jobPc, tasks, fTaskNumber, results, funcTasksDone, jobError,
                 raPc, regularAttemptFailed, numSubSequentFails,
                 scheduleFailed, scheduleDrained, recSched>>
  /\ UNCHANGED <<evars, cvars>>

\* Faulty variant: a retry that succeeds resolves without unsubscribing and
\* without removing the schedule.
RecoverySucceeded_KeepsSchedule ==
  /\ jobPc = "running" /\ raPc = "recovery" /\ isAttempting
  /\ outstanding' = outstanding - 1
  /\ StepReturned(fromValue("value"), "recovered", RaNow)
  /\ UNCHANGED tasks
  /\ UNCHANGED <<evars, cvars>>

\* The recovery attempt returned a value.
RecoverySucceeded ==
  /\ jobPc = "running" /\ raPc = "recovery" /\ isAttempting
  /\ outstanding' = outstanding - 1
  /\ StepReturned(fromValue("value"), "recovered",
                  [RaNow EXCEPT !.sched = Released(recSched)])
  /\ UNCHANGED tasks
  /\ UNCHANGED <<evars, cvars>>

\* The catch and the tail of the next-handler: the recovery attempt threw and
\* numSubSequentFails became fails; the loop ends at limit fails.
RecoveryCaughtAt(fails, limit) ==
  LET ended == [RaNow EXCEPT !.fails = fails, !.sched = Released(recSched)] IN
  IF fails = limit
    THEN RecoveryRejected("maxRetries", ended)
    ELSE IF scheduleDrained
      THEN RecoveryRejected("noMoreRetries", ended)
      ELSE IF scheduleFailed
        THEN RecoveryRejected("scheduleFailed", ended)
        ELSE /\ numSubSequentFails' = fails
             /\ isAttempting' = FALSE
             /\ UNCHANGED <<jobPc, fTaskNumber, results, funcTasksDone,
                            jobError, raPc, regularAttemptFailed,
                            scheduleFailed, scheduleDrained, recSched, stepLog>>

\* Faulty variant: the budget check is off by one.
RecoveryCaught_OffByOne(fails) ==
  RecoveryCaughtAt(fails, canFail.maxNumFails + 1)

RecoveryCaught(fails) == RecoveryCaughtAt(fails, canFail.maxNumFails)

RecoveryFailed ==
  /\ jobPc = "running" /\ raPc = "recovery" /\ isAttempting
  /\ outstanding' = outstanding - 1
  /\ RecoveryCaught(numSubSequentFails + 1)
  /\ UNCHANGED tasks
  /\ UNCHANGED <<evars, cvars>>

\* Faulty variant: the error-handler ends the loop without looking at isAttempting.
RecoveryOnError_Immediate ==
  RecoveryRejected("scheduleError",
    [RaNow EXCEPT !.failed = TRUE,
                  !.sched = Released([recSched EXCEPT !.ended = "error"])])

\* The error-handler of the recovery subscription.
RecoveryOnError ==
  IF isAttempting
    THEN /\ scheduleFailed' = TRUE
         /\ recSched' = [recSched EXCEPT !.ended = "error"]
         /\ UNCHANGED <<jobPc, fTaskNumber, results, funcTasksDone, jobError,
                        raPc, regularAttemptFailed, numSubSequentFails,
                        isAttempting, scheduleDrained, stepLog>>
    ELSE RecoveryRejected("scheduleError",
           [RaNow EXCEPT !.failed = TRUE,
                         !.sched = Released([recSched EXCEPT !.ended = "error"])])

ScheduleErrored ==
  /\ jobPc = "running" /\ raPc = "recovery"
  /\ recSched.subscribed /\ recSched.ended = "no"
  /\ RecoveryOnError
  /\ UNCHANGED <<tasks, outstanding>>
  /\ UNCHANGED <<evars, cvars>>

\* Faulty variant: the complete-handler ends the loop without looking at
\* isAttempting.
RecoveryOnComplete_Immediate ==
  RecoveryRejected("noMoreScheduled",
    [RaNow EXCEPT !.drained = TRUE,
                  !.sched = Released([recSched EXCEPT !.ended = "complete"])])

\* The complete-handler of the recovery subscription.
RecoveryOnComplete ==
  IF isAttempting
    THEN /\ scheduleDrained' = TRUE
         /\ recSched' = [recSched EXCEPT !.ended = "complete"]
         /\ UNCHANGED <<jobPc, fTaskNumber, results, funcTasksDone, jobError,
                        raPc, regularAttemptFailed, numSubSequentFails,
                        isAttempting, scheduleFailed, stepLog>>
    ELSE RecoveryRejected("noMoreScheduled",
           [RaNow EXCEPT !.drained = TRUE,
                         !.sched = Released([recSched EXCEPT !.ended = "complete"])])

ScheduleCompleted ==
  /\ jobPc = "running" /\ raPc = "recovery"
  /\ recSched.subscribed /\ recSched.ended = "no"
  /\ RecoveryOnComplete
  /\ UNCHANGED <<tasks, outstanding>>
  /\ UNCHANGED <<evars, cvars>>

JobNext == JobStart \/ ArgsResolved \/ ArgsFailed \/ RegularSucceeded
           \/ RegularFailed \/ ErrConfFailed \/ ErrConfResolved
           \/ RecoveryFiring \/ RecoverySucceeded \/ RecoveryFailed
           \/ ScheduleErrored \/ ScheduleCompleted

\* =================================================================== Cameleer
Null == <<>>

Num(n) == <<n>>

Firings == 1..MaxFirings

\* The names of the task definitions of the ConfigProvider, in its order.
TaskNames == <<"t1">>

\* The task configurations of the engine under study: each makes a task that
\* is enabled.
TaskConfigs ==
  [i \in 1..Len(TaskNames) |->
     [name |-> TaskNames[i], valid |-> TRUE, enabled |-> TRUE]]

\* The Task object that loadTasks makes of a definition. Tasks are compared
\* by identity; a definition is loaded again only once no firing and no job
\* of an earlier Task object is left, so that equal records are one object.
Task(name, allowMultiple) == [name |-> name, allowMultiple |-> allowMultiple]

\* this._config.queues, in configuration order.
QueueConfigs ==
  << [name |-> "qp", type |-> "parallel", isDefault |-> TRUE, enabled |-> TRUE,
      parallelism |-> 1, capabilities |-> 0, allowExclusiveJobs |-> FALSE],
     [name |-> "qc", type |-> "cost", isDefault |-> FALSE, enabled |-> TRUE,
      parallelism |-> 0, capabilities |-> 2, allowExclusiveJobs |-> FALSE] >>

QueueNames == {queues[i].name : i \in 1..Len(queues)}

QueueConf(name) == queues[CHOOSE i \in 1..Len(queues) : queues[i].name = name]

isParallel(cq) == cq.type = "parallel"

\* What a task's callables can resolve cost and queues to, per firing.
QueueDemands ==
  { [cost |-> Null, queues |-> <<>>],
    [cost |-> Num(1), queues |-> <<"qc">>],
    [cost |-> Null, queues |-> <<"qc">>] }

\* The ResolvedConfigs a firing of task t can resolve to.
ResolvedConfigs(t) ==
  { [skip |-> s, allowMultiple |-> t.allowMultiple,
     interruptTimeoutSecs |-> i, cost |-> d.cost, queues |-> d.queues] :
    s \in BOOLEAN, i \in {Null, Num(30)}, d \in QueueDemands }

\* ------------------------------------------------------ queue primitives
SeqToSet(sq) == {sq[i] : i \in 1..Len(sq)}

\* JobQueue.isWorking, isIdle, load
isWorking(q) == currentJobs[q] # {}

isIdle(q) == currentJobs[q] = {}

\* The jobs a queue holds: those running and those in its backlog.
JobsHeld(q) == currentJobs[q] \cup SeqToSet(backlog[q])

RECURSIVE SumCost(_)
SumCost(js) ==
  IF js = {}
    THEN 0
    ELSE LET j == CHOOSE x \in js : TRUE
         IN (IF jobCost[j] = Null THEN 0 ELSE jobCost[j][1]) + SumCost(js \ {j})

\* JobQueue.load, a ratio <<n, d>> standing for n / d: the jobs held over the
\* parallelism, and for a cost queue their cost over the capabilities.
load(q) ==
  IF isParallel(QueueConf(q))
    THEN <<Cardinality(JobsHeld(q)), QueueConf(q).parallelism>>
    ELSE <<SumCost(JobsHeld(q)), QueueConf(q).capabilities>>

\* a < b for two ratios of positive denominator.
Less(a, b) == a[1] * b[2] < b[1] * a[2]

\* Whether the queue can start the job at the head of its backlog.
CanStart(q) ==
  /\ ~paused[q]
  /\ backlog[q] # <<>>
  /\ IF isParallel(QueueConf(q))
       THEN Cardinality(currentJobs[q]) < QueueConf(q).parallelism
       ELSE currentJobs[q] = {}

\* ----------------------------------------------------------- admission
\* _isTaskRunning
isTaskRunning(t) ==
  \E q \in QueueNames :
    isWorking(q) /\ \E j \in currentJobs[q] : ftask[j] = t

\* _isTaskEnqueued
isTaskEnqueued(t) ==
  \E q \in QueueNames : \E j \in SeqToSet(backlog[q]) : ftask[j] = t

\* _isTaskEnqueuedOrRunning
isTaskEnqueuedOrRunning(t) == isTaskEnqueued(t) \/ isTaskRunning(t)

\* ------------------------------------------------------- queue selection
\* The filter of _selectBestMatchingQueue.
Appropriate(config, cq) ==
  IF config.cost # Null
    THEN /\ ~isParallel(cq)
         /\ (config.cost[1] < cq.capabilities \/ cq.allowExclusiveJobs)
    ELSE isParallel(cq)

\* f = capabilities / (load === 0 ? 1 : load), as a ratio.
Favorability(cq) ==
  LET l == IF load(cq.name)[1] = 0 THEN <<1, 1>> ELSE load(cq.name)
  IN <<cq.capabilities * l[2], l[1]>>

\* f1 < f2
LessFavorable(cq1, cq2) == Less(Favorability(cq1), Favorability(cq2))

\* The comparator of the cost case: 1 or -1, never 0.
CompareCost(cq1, cq2) == IF LessFavorable(cq1, cq2) THEN 1 ELSE -1

\* The comparator of the parallel case: -1 or 1, never 0.
CompareLoad(cq1, cq2) ==
  IF Less(load(cq1.name), load(cq2.name)) THEN -1 ELSE 1

Compare(isCost, cq1, cq2) ==
  IF isCost THEN CompareCost(cq1, cq2) ELSE CompareLoad(cq1, cq2)

\* Array.prototype.sort is called with comparators that never return 0, which
\* are not consistent: the order of the result is then implementation-defined.
\* Two implementations Node.js has shipped are modelled, and a call takes
\* either. The first is the insertion sort of short arrays.
RECURSIVE InsertSorted(_, _, _)
InsertSorted(isCost, sorted, cq) ==
  IF sorted = <<>>
    THEN <<cq>>
    ELSE IF Compare(isCost, sorted[Len(sorted)], cq) > 0
      THEN Append(InsertSorted(isCost, SubSeq(sorted, 1, Len(sorted) - 1), cq),
                  sorted[Len(sorted)])
      ELSE Append(sorted, cq)

RECURSIVE SortQueues(_, _)
SortQueues(isCost, cqs) ==
  IF cqs = <<>>
    THEN <<>>
    ELSE InsertSorted(isCost,
                      SortQueues(isCost, SubSeq(cqs, 1, Len(cqs) - 1)),
                      cqs[Len(cqs)])

\* The second is the merge sort by runs, which for a short array finds the run
\* at its start, reverses it if descending, and inserts the rest by binary
\* search.
RECURSIVE RunLength(_, _, _, _)
RunLength(isCost, cqs, isDescending, idx) ==
  IF idx > Len(cqs)
    THEN Len(cqs)
    ELSE LET order == Compare(isCost, cqs[idx], cqs[idx - 1])
         IN IF (isDescending /\ order >= 0) \/ (~isDescending /\ order < 0)
              THEN idx - 1
              ELSE RunLength(isCost, cqs, isDescending, idx + 1)

Reverse(sq) == [i \in 1..Len(sq) |-> sq[Len(sq) + 1 - i]]

\* The place of pivot among cqs[left + 1 .. right], counted from 0.
RECURSIVE BinarySearch(_, _, _, _, _)
BinarySearch(isCost, cqs, pivot, left, right) ==
  IF left >= right
    THEN left
    ELSE LET mid == left + ((right - left) \div 2)
         IN IF Compare(isCost, pivot, cqs[mid + 1]) < 0
              THEN BinarySearch(isCost, cqs, pivot, left, mid)
              ELSE BinarySearch(isCost, cqs, pivot, mid + 1, right)

\* start counts the elements already in order.
RECURSIVE BinaryInsertionSort(_, _, _)
BinaryInsertionSort(isCost, cqs, start) ==
  IF start >= Len(cqs)
    THEN cqs
    ELSE LET pivot == cqs[start + 1]
             left == BinarySearch(isCost, cqs, pivot, 0, start)
         IN BinaryInsertionSort(isCost,
                                SubSeq(cqs, 1, left) \o <<pivot>>
                                  \o SubSeq(cqs, left + 1, start)
                                  \o SubSeq(cqs, start + 2, Len(cqs)),
                                start + 1)

TimSortQueues(isCost, cqs) ==
  IF Len(cqs) < 2
    THEN cqs
    ELSE LET isDescending == Compare(isCost, cqs[2], cqs[1]) < 0
             n == RunLength(isCost, cqs, isDescending, 3)
             run == IF isDescending
                      THEN Reverse(SubSeq(cqs, 1, n)) \o SubSeq(cqs, n + 1, Len(cqs))
                      ELSE cqs
         IN BinaryInsertionSort(isCost, run, n)

SortImpls == {"insertion", "runs"}

\* queuesAllowedByTask.sort(...) under one implementation.
Sorted(impl, isCost, cqs) ==
  IF impl = "insertion" THEN SortQueues(isCost, cqs) ELSE TimSortQueues(isCost, cqs)

\* Faulty variant: with an empty queues list the first appropriate queue is
\* returned, default or not.
selectBestMatchingQueue_FirstAppropriate(config, impl) ==
  LET isCost == config.cost # Null
      appropriateQueues == SelectSeq(queues, LAMBDA cq : Appropriate(config, cq))
      allowedNames ==
        SelectSeq(config.queues,
                  LAMBDA qName : \E i \in 1..Len(appropriateQueues) :
                                   appropriateQueues[i].name = qName)
      queuesAllowedByTask ==
        [i \in 1..Len(allowedNames) |-> QueueConf(allowedNames[i])]
  IN IF Len(config.queues) = 0 /\ Len(appropriateQueues) > 0
       THEN Num(appropriateQueues[1].name)
       ELSE IF Len(queuesAllowedByTask) = 0
         THEN Null
         ELSE Num(Sorted(impl, isCost, queuesAllowedByTask)[1].name)

\* _selectBestMatchingQueue: the name of the queue, or Null where it throws.
selectBestMatchingQueue(config, impl) ==
  LET isCost == config.cost # Null
      appropriateQueues == SelectSeq(queues, LAMBDA cq : Appropriate(config, cq))
      defaultQueues == SelectSeq(appropriateQueues, LAMBDA cq : cq.isDefault)
      hasDefaultQueue == Len(defaultQueues) > 0
      allowedNames ==
        SelectSeq(config.queues,
                  LAMBDA qName : \E i \in 1..Len(appropriateQueues) :
                                   appropriateQueues[i].name = qName)
      queuesAllowedByTask ==
        [i \in 1..Len(allowedNames) |-> QueueConf(allowedNames[i])]
  IN IF Len(config.queues) = 0 /\ hasDefaultQueue
       THEN Num(defaultQueues[1].name)
       ELSE IF Len(appropriateQueues) = 0
         THEN Null
         ELSE IF Len(queuesAllowedByTask) = 0
           THEN Null
           ELSE Num(Sorted(impl, isCost, queuesAllowedByTask)[1].name)

\* ------------------------------------------------------------ work events
Emit(f, type) == [workEvents EXCEPT ![f] = Append(@, type)]

\* ---------------------------------------------------------------- firing
\* An _enqueueTask call awaits a promise that is already resolved: it goes on
\* before any timer can fire.
MicrotaskPending == \E f \in Firings : fpc[f] = "ready"

\* The subscriber of loadTasks: a schedule of a loaded task fires; the
\* scheduled event is emitted and _enqueueTask starts resolving the config.
Fire(f, t) ==
  /\ fpc[f] = "unfired"
  /\ IF f = 1 THEN TRUE ELSE fpc[f - 1] # "unfired"
  /\ t \in scheduled
  /\ ftask' = [ftask EXCEPT ![f] = t]
  /\ fpc' = [fpc EXCEPT ![f] = "resolving"]
  /\ workEvents' = Emit(f, "scheduled")
  /\ UNCHANGED <<tasksLoaded, scheduled, clearing, paused, backlog,
                 currentJobs, fconf, jobState, jobQueue, jobCost, numSubmitted, runSub,
                 raceSub, interruptableJobs, keepAliveInterval,
                 staticContextSaveTimeout, pauseWaitOpen, shutdownPc>>
  /\ UNCHANGED <<jvars, cvars>>

\* Faulty variant: a window is opened whatever interruptTimeoutSecs is.
shouldInterruptJob_AlwaysOpens(f, config) ==
  /\ fpc' = [fpc EXCEPT ![f] = "window"]
  /\ interruptableJobs' = interruptableJobs \cup {f}

\* _shouldInterruptJob: the window that is opened for the job, if any.
shouldInterruptJob(f, config) ==
  IF config.interruptTimeoutSecs = Null
    THEN /\ fpc' = [fpc EXCEPT ![f] = "ready"]
         /\ UNCHANGED interruptableJobs
    ELSE /\ fpc' = [fpc EXCEPT ![f] = "window"]
         /\ interruptableJobs' = interruptableJobs \cup {f}

\* _enqueueTask after task.resolveConfig(): skip, the allowMultiple check,
\* the new CameleerJob, its interruption window and the interruptable event.
Admit(f, config) ==
  IF config.skip \/ (~config.allowMultiple /\ isTaskEnqueuedOrRunning(ftask[f]))
    THEN /\ fpc' = [fpc EXCEPT ![f] = "returned"]
         /\ UNCHANGED <<fconf, jobState, workEvents, interruptableJobs>>
    ELSE /\ fconf' = [fconf EXCEPT ![f] = config]
         /\ jobState' = [jobState EXCEPT ![f] = "created"]
         /\ shouldInterruptJob(f, config)
         /\ workEvents' = Emit(f, "interruptable")

ConfigResolved(f) ==
  /\ fpc[f] = "resolving"
  /\ \E config \in ResolvedConfigs(ftask[f]) : Admit(f, config)
  /\ UNCHANGED <<tasksLoaded, scheduled, clearing, paused, backlog,
                 currentJobs, ftask, jobQueue, jobCost, numSubmitted, runSub, raceSub,
                 keepAliveInterval, staticContextSaveTimeout, pauseWaitOpen,
                 shutdownPc>>
  /\ UNCHANGED <<jvars, cvars>>

\* _enqueueTask: task.resolveConfig() threw.
ConfigFailed(f) ==
  /\ fpc[f] = "resolving"
  /\ fpc' = [fpc EXCEPT ![f] = "returned"]
  /\ UNCHANGED <<tasksLoaded, scheduled, clearing, paused, backlog,
                 currentJobs, ftask, fconf, jobState, jobQueue, jobCost, numSubmitted,
                 runSub, raceSub, workEvents, interruptableJobs,
                 keepAliveInterval, staticContextSaveTimeout, pauseWaitOpen,
                 shutdownPc>>
  /\ UNCHANGED <<jvars, cvars>>

\* isJobInterruptable
isJobInterruptable(f) == f \in interruptableJobs

\* Faulty variant: the promise of the window resolves to false.
InterruptJob_StillSubmits(f) ==
  /\ jobState[f] # "none"
  /\ IF ~isJobInterruptable(f)
       THEN UNCHANGED <<interruptableJobs, fpc, jobState, fconf>>
       ELSE /\ interruptableJobs' = interruptableJobs \ {f}
            /\ fpc' = [fpc EXCEPT ![f] = "ready"]
            /\ jobState' = [jobState EXCEPT ![f] = "interrupted"]
            /\ UNCHANGED fconf
  /\ UNCHANGED <<tasksLoaded, scheduled, clearing, paused, backlog,
                 currentJobs, ftask, jobQueue, jobCost, numSubmitted, runSub, raceSub,
                 workEvents, keepAliveInterval, staticContextSaveTimeout,
                 pauseWaitOpen, shutdownPc>>
  /\ UNCHANGED <<jvars, cvars>>

\* Faulty variant: the job stays in the map of interruptable jobs.
InterruptJob_KeepsEntry(f) ==
  /\ jobState[f] # "none"
  /\ IF ~isJobInterruptable(f)
       THEN UNCHANGED <<interruptableJobs, fpc, jobState, fconf>>
       ELSE /\ UNCHANGED interruptableJobs
            /\ fpc' = [fpc EXCEPT ![f] = "returned"]
            /\ jobState' = [jobState EXCEPT ![f] = "interrupted"]
            /\ fconf' = [fconf EXCEPT ![f] = Null]
  /\ UNCHANGED <<tasksLoaded, scheduled, clearing, paused, backlog,
                 currentJobs, ftask, jobQueue, jobCost, numSubmitted, runSub, raceSub,
                 workEvents, keepAliveInterval, staticContextSaveTimeout,
                 pauseWaitOpen, shutdownPc>>
  /\ UNCHANGED <<jvars, cvars>>

\* interruptJob for a job that a listener got from an interruptable event:
\* it throws unless the job is pending interruption; otherwise the timer is
\* cleared, the promise resolves to true and the awaiting _enqueueTask
\* returns.
InterruptJob(f) ==
  /\ jobState[f] # "none"
  /\ IF ~isJobInterruptable(f)
       THEN UNCHANGED <<interruptableJobs, fpc, jobState, fconf>>
       ELSE /\ interruptableJobs' = interruptableJobs \ {f}
            /\ fpc' = [fpc EXCEPT ![f] = "returned"]
            /\ jobState' = [jobState EXCEPT ![f] = "interrupted"]
            /\ fconf' = [fconf EXCEPT ![f] = Null]
  /\ UNCHANGED <<tasksLoaded, scheduled, clearing, paused, backlog,
                 currentJobs, ftask, jobQueue, jobCost, numSubmitted, runSub, raceSub,
                 workEvents, keepAliveInterval, staticContextSaveTimeout,
                 pauseWaitOpen, shutdownPc>>
  /\ UNCHANGED <<jvars, cvars>>

\* Faulty variant: a failed selection is logged but does not end _enqueueTask,
\* the job goes to the first queue of the configuration.
Submit_DespiteFailure(f, next) ==
  \E impl \in SortImpls :
    LET selected == selectBestMatchingQueue(fconf[f], impl)
        queue == IF selected = Null THEN queues[1].name ELSE selected[1]
    IN /\ fpc' = [fpc EXCEPT ![f] = next]
       /\ backlog' = [backlog EXCEPT ![queue] = Append(@, f)]
       /\ jobState' = [jobState EXCEPT ![f] =
                         IF selected = Null THEN "rejected" ELSE "queued"]
       /\ jobQueue' = [jobQueue EXCEPT ![f] = queue]
       /\ jobCost' = [jobCost EXCEPT ![f] = fconf[f].cost]
       /\ numSubmitted' = [numSubmitted EXCEPT ![f] = @ + 1]
       /\ runSub' = [runSub EXCEPT ![f] = TRUE]
       /\ raceSub' = [raceSub EXCEPT ![f] = "both"]
       /\ fconf' = [fconf EXCEPT ![f] = IF next = "returned" THEN Null ELSE @]

\* The tail of _enqueueTask: select the queue, subscribe to run and to
\* race(done, failed), addJob; where the call stands afterwards.
Submit(f, next) ==
  \E impl \in SortImpls :
    LET selected == selectBestMatchingQueue(fconf[f], impl) IN
    /\ fpc' = [fpc EXCEPT ![f] = next]
    /\ IF selected = Null
         THEN /\ jobState' = [jobState EXCEPT ![f] = "rejected"]
              /\ fconf' = [fconf EXCEPT ![f] = Null]
              /\ UNCHANGED <<backlog, jobQueue, jobCost, numSubmitted, runSub,
                             raceSub>>
         ELSE /\ backlog' = [backlog EXCEPT ![selected[1]] = Append(@, f)]
              /\ jobState' = [jobState EXCEPT ![f] = "queued"]
              /\ jobQueue' = [jobQueue EXCEPT ![f] = selected[1]]
              /\ jobCost' = [jobCost EXCEPT ![f] = fconf[f].cost]
              /\ numSubmitted' = [numSubmitted EXCEPT ![f] = @ + 1]
              /\ runSub' = [runSub EXCEPT ![f] = TRUE]
              /\ raceSub' = [raceSub EXCEPT ![f] = "both"]
              /\ fconf' = [fconf EXCEPT ![f] = IF next = "returned" THEN Null ELSE @]

\* Faulty variant: the timer of the window is an interval, not a timeout.
WindowPassed_Repeating(f) ==
  /\ fpc[f] = "ready" \/ (fpc[f] = "window" /\ ~MicrotaskPending)
  /\ UNCHANGED interruptableJobs
  /\ Submit(f, fpc[f])
  /\ UNCHANGED <<tasksLoaded, scheduled, clearing, paused, currentJobs, ftask,
                 workEvents, keepAliveInterval, staticContextSaveTimeout,
                 pauseWaitOpen, shutdownPc>>
  /\ UNCHANGED <<jvars, cvars>>

\* _enqueueTask resumes after the interruption promise resolved to false:
\* the timer of the window fired, or there was no window.
WindowPassed(f) ==
  /\ fpc[f] = "ready" \/ (fpc[f] = "window" /\ ~MicrotaskPending)
  /\ interruptableJobs' = interruptableJobs \ {f}
  /\ Submit(f, "returned")
  /\ UNCHANGED <<tasksLoaded, scheduled, clearing, paused, currentJobs, ftask,
                 workEvents, keepAliveInterval, staticContextSaveTimeout,
                 pauseWaitOpen, shutdownPc>>
  /\ UNCHANGED <<jvars, cvars>>

\* ------------------------------------------------------- queue at work
\* Faulty variant: the subscriber neither looks at the job of the event nor
\* unsubscribes; every subscriber on the queue emits run.
OnRun_AnyJob(f) ==
  /\ UNCHANGED runSub
  /\ workEvents' = [g \in Firings |->
                      IF runSub[g] /\ jobQueue[g] = jobQueue[f]
                        THEN Append(workEvents[g], "run")
                        ELSE workEvents[g]]

\* The subscriber of observableRun in _enqueueTask.
OnRun(f) ==
  /\ runSub' = [runSub EXCEPT ![f] = FALSE]
  /\ workEvents' = IF runSub[f] THEN Emit(f, "run") ELSE workEvents

\* The queue starts the job at the head of its backlog and emits run.
QueueRunNext(q) ==
  /\ CanStart(q)
  /\ LET f == Head(backlog[q]) IN
       /\ backlog' = [backlog EXCEPT ![q] = Tail(@)]
       /\ currentJobs' = [currentJobs EXCEPT ![q] = @ \cup {f}]
       /\ jobState' = [jobState EXCEPT ![f] = "running"]
       /\ OnRun(f)
  /\ UNCHANGED <<tasksLoaded, scheduled, clearing, paused, fpc, ftask, fconf,
                 jobQueue, jobCost, numSubmitted, raceSub, interruptableJobs,
                 keepAliveInterval, staticContextSaveTimeout, pauseWaitOpen,
                 shutdownPc>>
  /\ UNCHANGED <<jvars, cvars>>

\* race(observableDone, observableFailed): the subscription of job g when
\* the queue emits an event of the given type for job f. race mirrors the
\* source that emits first and drops the other one.
RaceAfter(g, f, type) ==
  IF raceSub[g] \in {"both", type}
    THEN IF g = f THEN "closed" ELSE type
    ELSE raceSub[g]

\* The subscriber of race(done, failed) in _enqueueTask, for every job that
\* is subscribed on the queue of job f.
OnTerminal(f, type) ==
  /\ raceSub' = [g \in Firings |->
                   IF jobQueue[g] = jobQueue[f] THEN RaceAfter(g, f, type)
                                                ELSE raceSub[g]]
  /\ workEvents' = IF raceSub[f] \in {"both", type}
                     THEN Emit(f, type) ELSE workEvents

\* Faulty variant: the idle event of one queue is taken for all of them.
OnIdle_AnyQueue(current) ==
  /\ pauseWaitOpen' = FALSE
  /\ shutdownPc' = IF shutdownPc = "pauseWait" THEN "clearTasks"
                                                ELSE shutdownPc

\* pauseWait's subscriber of the merged idle events; shutdown goes on with
\* clearTasks once its pauseWait resolved.
OnIdle(current) ==
  IF \A q \in QueueNames : current[q] = {}
    THEN /\ pauseWaitOpen' = FALSE
         /\ shutdownPc' = IF shutdownPc = "pauseWait" THEN "clearTasks"
                                                       ELSE shutdownPc
    ELSE UNCHANGED <<pauseWaitOpen, shutdownPc>>

\* Faulty variant: the JobFailError of a job is not contained, its queue stops
\* and drops what waits in it.
JobEnds_FailureStopsQueue(q, f, type) ==
  /\ f \in currentJobs[q]
  /\ LET current == [currentJobs EXCEPT ![q] = @ \ {f}] IN
       /\ currentJobs' = current
       /\ IF current[q] = {} /\ (paused[q] \/ backlog[q] = <<>>)
            THEN OnIdle(current)
            ELSE UNCHANGED <<pauseWaitOpen, shutdownPc>>
  /\ jobState' = [jobState EXCEPT ![f] = type]
  /\ OnTerminal(f, type)
  /\ paused' = IF type = "failed" THEN [paused EXCEPT ![q] = TRUE] ELSE paused
  /\ backlog' = IF type = "failed" THEN [backlog EXCEPT ![q] = <<>>] ELSE backlog
  /\ UNCHANGED <<tasksLoaded, scheduled, clearing, fpc, ftask,
                 fconf, jobQueue, jobCost, numSubmitted, runSub,
                 interruptableJobs, keepAliveInterval,
                 staticContextSaveTimeout>>
  /\ UNCHANGED <<jvars, cvars>>

\* A running job ends: CameleerJob._attempt returned (done) or threw its
\* JobFailError (failed); the queue emits the event, and idle if it has
\* nothing left to run.
JobEnds(q, f, type) ==
  /\ f \in currentJobs[q]
  /\ LET current == [currentJobs EXCEPT ![q] = @ \ {f}] IN
       /\ currentJobs' = current
       /\ IF current[q] = {} /\ (paused[q] \/ backlog[q] = <<>>)
            THEN OnIdle(current)
            ELSE UNCHANGED <<pauseWaitOpen, shutdownPc>>
  /\ jobState' = [jobState EXCEPT ![f] = type]
  /\ OnTerminal(f, type)
  /\ UNCHANGED <<tasksLoaded, scheduled, clearing, paused, backlog, fpc, ftask,
                 fconf, jobQueue, jobCost, numSubmitted, runSub, interruptableJobs,
                 keepAliveInterval, staticContextSaveTimeout>>
  /\ UNCHANGED <<jvars, cvars>>

\* A step body of a running job sets a property of its task's static
\* context: the observer in loadTasks re-arms the save timer.
ContextWrite(f) ==
  /\ jobState[f] = "running"
  /\ staticContextSaveTimeout' = TRUE
  /\ UNCHANGED <<tasksLoaded, scheduled, clearing, paused, backlog,
                 currentJobs, fpc, ftask, fconf, jobState, jobQueue, jobCost,
                 numSubmitted, runSub, raceSub, workEvents, interruptableJobs,
                 keepAliveInterval, pauseWaitOpen, shutdownPc>>
  /\ UNCHANGED <<jvars, cvars>>

\* The save timer fires: it is disarmed and the context is saved.
StaticContextSaveFires ==
  /\ staticContextSaveTimeout /\ ~MicrotaskPending
  /\ staticContextSaveTimeout' = FALSE
  /\ UNCHANGED <<tasksLoaded, scheduled, clearing, paused, backlog,
                 currentJobs, fpc, ftask, fconf, jobState, jobQueue, jobCost,
                 numSubmitted, runSub, raceSub, workEvents, interruptableJobs,
                 keepAliveInterval, pauseWaitOpen, shutdownPc>>
  /\ UNCHANGED <<jvars, cvars>>

\* ---- the same two callbacks with the time between them
Aged(age) == IF age < serializeInterval THEN age + 1 ELSE age

\* Time passes.
Tick ==
  /\ shutdownPc # "resolved"
  /\ timeoutAge' = Aged(timeoutAge)
  /\ quietFor' = Aged(quietFor)
  /\ UNCHANGED <<serializeInterval, burstWrites, burstSaves>>
  /\ UNCHANGED <<jvars, evars, queues, built, selection, allConfigs, loadOutcome,
                 taskDefs, taskDefaults, svars, lvars>>

\* The burst the write at hand belongs to: it goes on if the write follows the
\* previous one within the interval, a new one begins otherwise.
BurstGoesOn == quietFor < serializeInterval

\* Faulty variant: a timer that is armed is left as it is.
ContextSet_KeepsTimer ==
  /\ tasksLoaded # {}
  /\ BurstGoesOn => burstWrites < MaxWrites
  /\ staticContextSaveTimeout' =
       (staticContextSaveTimeout \/ serializeInterval > 0)
  /\ timeoutAge' = IF staticContextSaveTimeout THEN timeoutAge ELSE 0
  /\ quietFor' = 0
  /\ burstWrites' = IF BurstGoesOn THEN burstWrites + 1 ELSE 1
  /\ burstSaves' = IF BurstGoesOn THEN burstSaves ELSE 0
  /\ UNCHANGED serializeInterval
  /\ UNCHANGED <<tasksLoaded, scheduled, clearing, paused, backlog,
                 currentJobs, fpc, ftask, fconf, jobState, jobQueue, jobCost,
                 numSubmitted, runSub, raceSub, workEvents, interruptableJobs,
                 keepAliveInterval, pauseWaitOpen, shutdownPc>>
  /\ UNCHANGED <<jvars, queues, built, selection, allConfigs, loadOutcome,
                 taskDefs, taskDefaults, svars, lvars>>

\* A property of a loaded task's static context is set: the observer clears
\* the timer and, with an interval above 0, arms a new one.
ContextSet ==
  /\ tasksLoaded # {}
  /\ BurstGoesOn => burstWrites < MaxWrites
  /\ staticContextSaveTimeout' = (serializeInterval > 0)
  /\ timeoutAge' = 0
  /\ quietFor' = 0
  /\ burstWrites' = IF BurstGoesOn THEN burstWrites + 1 ELSE 1
  /\ burstSaves' = IF BurstGoesOn THEN burstSaves ELSE 0
  /\ UNCHANGED serializeInterval
  /\ UNCHANGED <<tasksLoaded, scheduled, clearing, paused, backlog,
                 currentJobs, fpc, ftask, fconf, jobState, jobQueue, jobCost,
                 numSubmitted, runSub, raceSub, workEvents, interruptableJobs,
                 keepAliveInterval, pauseWaitOpen, shutdownPc>>
  /\ UNCHANGED <<jvars, queues, built, selection, allConfigs, loadOutcome,
                 taskDefs, taskDefaults, svars, lvars>>

\* The callback of the timer, no earlier than the interval after it was
\* armed: the timer is forgotten and the context saved.
SaveTimeout ==
  /\ staticContextSaveTimeout
  /\ timeoutAge >= serializeInterval
  /\ staticContextSaveTimeout' = FALSE
  /\ burstSaves' = burstSaves + 1
  /\ UNCHANGED <<serializeInterval, timeoutAge, quietFor, burstWrites>>
  /\ UNCHANGED <<tasksLoaded, scheduled, clearing, paused, backlog,
                 currentJobs, fpc, ftask, fconf, jobState, jobQueue, jobCost,
                 numSubmitted, runSub, raceSub, workEvents, interruptableJobs,
                 keepAliveInterval, pauseWaitOpen, shutdownPc>>
  /\ UNCHANGED <<jvars, queues, built, selection, allConfigs, loadOutcome,
                 taskDefs, taskDefaults, svars, lvars>>

\* ---- the same context with what it holds, from one engine to the next
\* What a task may store under a key: a number, a Date.
ContextValues == {"42", "date"}

\* JSON.stringify of the context, by the value under the key: a number stays,
\* a Date becomes its ISO string, a key that is not there is not written.
stringify(v) == IF v = "date" THEN "isoString" ELSE v

\* JSON.parse(stringify(v)) = v
IsJson(v) == stringify(v) = v

\* The fields of the engine the content of the context does not touch.
engineRest == <<tasksLoaded, scheduled, clearing, paused, backlog, currentJobs,
                fpc, ftask, fconf, jobState, jobQueue, jobCost, numSubmitted,
                runSub, raceSub, workEvents, interruptableJobs,
                keepAliveInterval, pauseWaitOpen>>

configRest == <<queues, built, selection, allConfigs, loadOutcome, taskDefs,
                taskDefaults, tvars, lvars>>

\* _loadStaticTaskContext in loadTasks: the file is read and parsed once per
\* instance; a file that is missing or does not parse gives an empty context.
LoadContext ==
  /\ shutdownPc = "none"
  /\ staticTaskContext = "null"
  /\ staticTaskContext' = IF file \in {"missing", "truncated"} THEN "absent"
                                                                ELSE file
  /\ seen' = IF instance = 2 THEN staticTaskContext' ELSE seen
  /\ UNCHANGED <<instance, file, inFlight, stored>>
  /\ UNCHANGED <<staticContextSaveTimeout, shutdownPc>>
  /\ UNCHANGED <<jvars, engineRest, configRest>>

\* task.staticContext[key] = value: the proxy sets it and the observer arms
\* the save timer.
Store ==
  /\ shutdownPc = "none"
  /\ staticTaskContext # "null"
  /\ \E v \in ContextValues :
       /\ staticTaskContext' = v
       /\ stored' = IF instance = 1 THEN v ELSE stored
  /\ staticContextSaveTimeout' = TRUE
  /\ UNCHANGED <<instance, file, inFlight, seen>>
  /\ UNCHANGED shutdownPc
  /\ UNCHANGED <<jvars, engineRest, configRest>>

\* _saveStaticTaskContext: fs.writeFile is called with the context as it is.
saveStaticTaskContext(by) ==
  inFlight' = inFlight \cup {[by |-> by, instance |-> instance,
                              data |-> stringify(staticTaskContext),
                              opened |-> FALSE]}

\* The callback of the save timer.
TimerSave ==
  /\ staticContextSaveTimeout
  /\ Cardinality(inFlight) < MaxInFlight
  /\ staticContextSaveTimeout' = FALSE
  /\ saveStaticTaskContext("timer")
  /\ UNCHANGED <<instance, staticTaskContext, file, stored, seen>>
  /\ UNCHANGED shutdownPc
  /\ UNCHANGED <<jvars, engineRest, configRest>>

\* shutdown of an idle engine, up to the await of the final save, the timer
\* left armed; with no context loaded there is nothing to write, and
\* shutdown clears the timer and resolves.
ShutdownSave ==
  /\ shutdownPc = "none"
  /\ IF staticTaskContext = "null"
       THEN /\ shutdownPc' = "resolved"
            /\ staticContextSaveTimeout' = FALSE
            /\ UNCHANGED inFlight
       ELSE /\ Cardinality(inFlight) < MaxInFlight
            /\ shutdownPc' = "saving"
            /\ saveStaticTaskContext("shutdown")
            /\ UNCHANGED staticContextSaveTimeout
  /\ UNCHANGED <<instance, staticTaskContext, file, stored, seen>>
  /\ UNCHANGED <<jvars, engineRest, configRest>>

\* fs.writeFile opens the file for writing, which truncates it.
WriteOpens ==
  \E w \in inFlight :
    /\ ~w.opened
    /\ file' = "truncated"
    /\ inFlight' = (inFlight \ {w}) \cup {[w EXCEPT !.opened = TRUE]}
    /\ UNCHANGED <<instance, staticTaskContext, stored, seen>>
    /\ UNCHANGED <<staticContextSaveTimeout, shutdownPc>>
    /\ UNCHANGED <<jvars, engineRest, configRest>>

\* fs.writeFile writes its data and calls back; after the save it awaited,
\* shutdown clears the save timer and resolves.
WriteCompletes ==
  \E w \in inFlight :
    /\ w.opened
    /\ file' = w.data
    /\ inFlight' = inFlight \ {w}
    /\ IF w.by = "shutdown" /\ w.instance = instance
         THEN /\ staticContextSaveTimeout' = FALSE
              /\ shutdownPc' = "resolved"
         ELSE UNCHANGED <<staticContextSaveTimeout, shutdownPc>>
    /\ UNCHANGED <<instance, staticTaskContext, stored, seen>>
    /\ UNCHANGED <<jvars, engineRest, configRest>>

\* new Cameleer(...) after the shutdown of the first instance resolved.
NextInstance ==
  /\ instance = 1
  /\ shutdownPc = "resolved"
  /\ instance' = 2
  /\ staticTaskContext' = "null"
  /\ staticContextSaveTimeout' = FALSE
  /\ shutdownPc' = "none"
  /\ UNCHANGED <<file, inFlight, stored, seen>>
  /\ UNCHANGED <<jvars, engineRest, configRest>>

\* -------------------------------------------------------------- lifecycle
\* No _enqueueTask call is under way and no job is waiting or running.
NoJobLeft ==
  \A f \in Firings :
    /\ fpc[f] \in {"unfired", "returned"}
    /\ jobState[f] \notin {"queued", "running"}

\* Whether two of the configurations share a name.
NamesNotUnique(configs) ==
  \E i, j \in 1..Len(configs) : i # j /\ configs[i].name = configs[j].name

\* The place of the first configuration of which no task can be made, where
\* the loop of loadTasks throws; past the end if there is none.
FirstInvalid(configs) ==
  IF \E i \in 1..Len(configs) : ~configs[i].valid
    THEN CHOOSE i \in 1..Len(configs) :
           ~configs[i].valid /\ \A j \in 1..(i - 1) : configs[j].valid
    ELSE Len(configs) + 1

\* Faulty variant: the names are not compared before the loop, every
\* configuration in turn is loaded under its name.
TasksOfLoad_Unchecked(configs, am) ==
  {Task(configs[i].name, am[i]) :
     i \in {j \in 1..(FirstInvalid(configs) - 1) : configs[j].enabled}}

\* The tasks a call of loadTasks leaves loaded, am giving the allowMultiple
\* of each: none if names are shared, else the enabled ones before the loop
\* threw.
TasksOfLoad(configs, am) ==
  IF NamesNotUnique(configs)
    THEN {}
    ELSE {Task(configs[i].name, am[i]) :
            i \in {j \in 1..(FirstInvalid(configs) - 1) : configs[j].enabled}}

\* The configurations the loop of loadTasks gets to: none if names are
\* shared, else all up to the first of which no task can be made.
Reached ==
  IF NamesNotUnique(allConfigs)
    THEN {}
    ELSE {i \in 1..Len(allConfigs) : i <= FirstInvalid(allConfigs)}

\* A boolean as the enabled property holds it.
Boolean(b) == IF b THEN "true" ELSE "false"

\* Resolve.optionalToValue(true, confOrTask.enabled, Boolean): a function is
\* called and returns its value, a boolean is taken as it is.
optionalToValue(option, returned) ==
  IF option = "function" THEN returned ELSE option = "true"

\* What the enabled functions return in one call of loadTasks; a
\* configuration whose enabled is a boolean has no function to return
\* anything.
EnabledReturns ==
  {r \in [1..Len(allConfigs) -> BOOLEAN] :
     \A i \in 1..Len(allConfigs) :
       (i \notin Reached \/ enabledOption[i] # "function") => r[i]}

\* The configurations after confOrTask.enabled = await ...: the value is
\* assigned to the object that the config provider returned.
Resolved(returned) ==
  [i \in 1..Len(allConfigs) |->
     [name |-> allConfigs[i].name, valid |-> allConfigs[i].valid,
      enabled |-> IF i \in Reached
                    THEN optionalToValue(enabledOption[i], returned[i])
                    ELSE FALSE]]

\* loadTasks: it throws if names are shared; else every task in turn is made,
\* loaded if enabled, and its schedule registered, until one cannot be made.
LoadTasks ==
  /\ shutdownPc = "none"
  /\ tasksLoaded = {}
  /\ NoJobLeft
  /\ IF enabledOption = Null
       THEN /\ \E am \in [1..Len(allConfigs) -> BOOLEAN] :
                 tasksLoaded' = TasksOfLoad(allConfigs, am)
            /\ UNCHANGED lvars
       ELSE /\ Len(enabledCalls) < MaxLoads
            /\ \E returned \in EnabledReturns,
                  am \in [1..Len(allConfigs) -> BOOLEAN] :
                 /\ tasksLoaded' = TasksOfLoad(Resolved(returned), am)
                 /\ enabledOption' =
                      [i \in 1..Len(allConfigs) |->
                         IF i \in Reached
                           THEN Boolean(Resolved(returned)[i].enabled)
                           ELSE enabledOption[i]]
            /\ enabledCalls' =
                 Append(enabledCalls,
                        [i \in 1..Len(allConfigs) |->
                           IF i \in Reached /\ enabledOption[i] = "function"
                             THEN 1 ELSE 0])
            /\ UNCHANGED enabledDefined
  /\ scheduled' = tasksLoaded'
  /\ loadOutcome' = IF \/ NamesNotUnique(allConfigs)
                       \/ FirstInvalid(allConfigs) <= Len(allConfigs)
                      THEN "rejected"
                      ELSE "resolved"
  /\ UNCHANGED <<clearing, paused, backlog, currentJobs, fpc, ftask, fconf,
                 jobState, jobQueue, jobCost, numSubmitted, runSub, raceSub, workEvents,
                 interruptableJobs, keepAliveInterval,
                 staticContextSaveTimeout, pauseWaitOpen, shutdownPc>>
  /\ UNCHANGED <<jvars, queues, built, selection, allConfigs, taskDefs,
                 taskDefaults, tvars, svars>>

\* run: the keep-alive timer is re-armed and every queue resumed.
Run ==
  /\ shutdownPc = "none"
  /\ keepAliveInterval' = TRUE
  /\ paused' = [q \in QueueNames |-> FALSE]
  /\ UNCHANGED <<tasksLoaded, scheduled, clearing, backlog, currentJobs, fpc,
                 ftask, fconf, jobState, jobQueue, jobCost, numSubmitted, runSub,
                 raceSub, workEvents, interruptableJobs,
                 staticContextSaveTimeout, pauseWaitOpen, shutdownPc>>
  /\ UNCHANGED <<jvars, cvars>>

\* Faulty variant: pausing drops the jobs that wait.
pause_ClearingBacklog ==
  /\ paused' = [q \in QueueNames |-> TRUE]
  /\ backlog' = [q \in QueueNames |-> <<>>]
  /\ jobState' = [f \in Firings |->
                    IF jobState[f] = "queued" THEN "cleared" ELSE jobState[f]]

\* pause: every queue is paused.
pause ==
  /\ paused' = [q \in QueueNames |-> TRUE]
  /\ UNCHANGED <<backlog, jobState>>

Pause ==
  /\ shutdownPc = "none"
  /\ pause
  /\ UNCHANGED <<tasksLoaded, scheduled, clearing, currentJobs, fpc, ftask,
                 fconf, jobQueue, jobCost, numSubmitted, runSub, raceSub, workEvents,
                 interruptableJobs, keepAliveInterval,
                 staticContextSaveTimeout, pauseWaitOpen, shutdownPc>>
  /\ UNCHANGED <<jvars, cvars>>

\* pauseWait: pause; resolved at once if every queue is idle, otherwise
\* subscribed to the idle events.
PauseWait ==
  /\ shutdownPc = "none"
  /\ ~pauseWaitOpen
  /\ pause
  /\ pauseWaitOpen' = ~(\A q \in QueueNames : isIdle(q))
  /\ UNCHANGED <<tasksLoaded, scheduled, clearing, currentJobs, fpc, ftask,
                 fconf, jobQueue, jobCost, numSubmitted, runSub, raceSub, workEvents,
                 interruptableJobs, keepAliveInterval,
                 staticContextSaveTimeout, shutdownPc>>
  /\ UNCHANGED <<jvars, cvars>>

\* The tasks of _tasksArr, in insertion order.
tasksArr ==
  LET names == SelectSeq([i \in 1..Len(allConfigs) |-> allConfigs[i].name],
                         LAMBDA n : \E t \in tasksLoaded : t.name = n)
  IN [i \in 1..Len(names) |-> CHOOSE t \in tasksLoaded : t.name = names[i]]

NotClearing == [by |-> "none", left |-> <<>>]

\* clearTasks up to its first await: every backlog is cleared and the first
\* task's schedule removed; with no task loaded it completes at once.
clearTasks(by) ==
  /\ backlog' = [q \in QueueNames |-> <<>>]
  /\ jobState' = [f \in Firings |->
                    IF \E q \in QueueNames : f \in SeqToSet(backlog[q])
                      THEN "cleared" ELSE jobState[f]]
  /\ IF tasksArr = <<>>
       THEN /\ clearing' = NotClearing
            /\ UNCHANGED scheduled
       ELSE /\ clearing' = [by |-> by, left |-> tasksArr]
            /\ scheduled' = scheduled \ {Head(tasksArr)}

ClearTasks ==
  /\ shutdownPc = "none"
  /\ clearing = NotClearing
  /\ clearTasks("user")
  /\ UNCHANGED <<tasksLoaded, paused, currentJobs, fpc, ftask, fconf, jobQueue, jobCost,
                 numSubmitted, runSub, raceSub, workEvents, interruptableJobs,
                 keepAliveInterval, staticContextSaveTimeout, pauseWaitOpen,
                 shutdownPc>>
  /\ UNCHANGED <<jvars, cvars>>

\* clearTasks after the teardown of a schedule: the task is deleted and the
\* loop goes on with the next one, or clearTasks completes; the shutdown
\* that called it starts the final save of the static context.
ClearTasksStep ==
  /\ clearing.left # <<>>
  /\ tasksLoaded' = tasksLoaded \ {Head(clearing.left)}
  /\ IF Tail(clearing.left) = <<>>
       THEN /\ clearing' = NotClearing
            /\ shutdownPc' = IF clearing.by = "shutdown" THEN "saving"
                                                         ELSE shutdownPc
            /\ UNCHANGED scheduled
       ELSE /\ clearing' = [clearing EXCEPT !.left = Tail(@)]
            /\ scheduled' = scheduled \ {Head(Tail(clearing.left))}
            /\ UNCHANGED shutdownPc
  /\ UNCHANGED <<paused, backlog, currentJobs, fpc, ftask, fconf, jobState,
                 jobQueue, jobCost, numSubmitted, runSub, raceSub, workEvents,
                 interruptableJobs, keepAliveInterval,
                 staticContextSaveTimeout, pauseWaitOpen>>
  /\ UNCHANGED <<jvars, cvars>>

\* shutdown up to the await of pauseWait.
ShutdownBegin ==
  /\ shutdownPc = "none"
  /\ pause
  /\ shutdownPc' = IF \A q \in QueueNames : isIdle(q) THEN "clearTasks"
                                                      ELSE "pauseWait"
  /\ UNCHANGED <<tasksLoaded, scheduled, clearing, currentJobs, fpc, ftask,
                 fconf, jobQueue, jobCost, numSubmitted, runSub, raceSub, workEvents,
                 interruptableJobs, keepAliveInterval,
                 staticContextSaveTimeout, pauseWaitOpen>>
  /\ UNCHANGED <<jvars, cvars>>

\* shutdown after pauseWait resolved: clearTasks is called.
ShutdownClearTasks ==
  /\ shutdownPc = "clearTasks"
  /\ clearing = NotClearing
  /\ clearTasks("shutdown")
  /\ shutdownPc' = IF tasksArr = <<>> THEN "saving" ELSE shutdownPc
  /\ UNCHANGED <<tasksLoaded, paused, currentJobs, fpc, ftask, fconf, jobQueue, jobCost,
                 numSubmitted, runSub, raceSub, workEvents, interruptableJobs,
                 keepAliveInterval, staticContextSaveTimeout, pauseWaitOpen>>
  /\ UNCHANGED <<jvars, cvars>>

\* shutdown after the final save: the save timer and the keep-alive timer
\* are cleared and the shutdown event emitted.
ShutdownFinish ==
  /\ shutdownPc = "saving"
  /\ staticContextSaveTimeout' = FALSE
  /\ keepAliveInterval' = FALSE
  /\ shutdownPc' = "resolved"
  /\ UNCHANGED <<tasksLoaded, scheduled, clearing, paused, backlog,
                 currentJobs, fpc, ftask, fconf, jobState, jobQueue, jobCost,
                 numSubmitted, runSub, raceSub, workEvents, interruptableJobs,
                 pauseWaitOpen>>
  /\ UNCHANGED <<jvars, cvars>>

\* The fields of a CameleerJob that has not started.
InitJob ==
  /\ jobPc = "new"
  /\ tasks = <<>>
  /\ fTaskNumber = 1
  /\ results = <<>>
  /\ funcTasksDone = 0
  /\ jobError = <<>>
  /\ raPc = "none"
  /\ regularAttemptFailed = FALSE
  /\ numSubSequentFails = 0
  /\ isAttempting = FALSE
  /\ scheduleFailed = FALSE
  /\ scheduleDrained = FALSE
  /\ recSched = NoSched
  /\ outstanding = 0
  /\ stepLog = <<>>

\* The specification does not follow the time.
TimeNotFollowed ==
  /\ serializeInterval = Null
  /\ timeoutAge = Null
  /\ quietFor = Null
  /\ burstWrites = Null
  /\ burstSaves = Null

\* The specification does not follow the content of the static context.
StoreNotFollowed ==
  /\ instance = Null
  /\ staticTaskContext = Null
  /\ file = Null
  /\ inFlight = Null
  /\ stored = Null
  /\ seen = Null

\* The specification does not follow the enabled option of the
\* configurations: allConfigs holds what each resolves to.
OptionsNotFollowed ==
  /\ enabledDefined = Null
  /\ enabledOption = Null
  /\ enabledCalls = Null

\* The fields of a Cameleer after its constructor, given its queues.
InitEngine ==
  /\ tasksLoaded = {}
  /\ scheduled = {}
  /\ clearing = NotClearing
  /\ paused = [q \in QueueNames |-> TRUE]
  /\ backlog = [q \in QueueNames |-> <<>>]
  /\ currentJobs = [q \in QueueNames |-> {}]
  /\ fpc = [f \in Firings |-> "unfired"]
  /\ ftask = [f \in Firings |-> Null]
  /\ fconf = [f \in Firings |-> Null]
  /\ jobState = [f \in Firings |-> "none"]
  /\ jobQueue = [f \in Firings |-> Null]
  /\ jobCost = [f \in Firings |-> Null]
  /\ numSubmitted = [f \in Firings |-> 0]
  /\ runSub = [f \in Firings |-> FALSE]
  /\ raceSub = [f \in Firings |-> "none"]
  /\ workEvents = [f \in Firings |-> <<>>]
  /\ interruptableJobs = {}
  /\ keepAliveInterval = TRUE
  /\ staticContextSaveTimeout = FALSE
  /\ pauseWaitOpen = FALSE
  /\ shutdownPc = "none"

\* new Cameleer(...) succeeded with QueueConfigs; no job has started.
Init ==
  /\ queues = QueueConfigs
  /\ built = "constructed"
  /\ selection = Null
  /\ allConfigs = TaskConfigs
  /\ loadOutcome = "no"
  /\ taskDefs = Null
  /\ taskDefaults = Null
  /\ TimeNotFollowed
  /\ StoreNotFollowed
  /\ OptionsNotFollowed
  /\ InitJob
  /\ InitEngine

Next ==
  \/ LoadTasks \/ Run \/ Pause \/ PauseWait \/ ClearTasks \/ ClearTasksStep
  \/ ShutdownBegin \/ ShutdownClearTasks \/ ShutdownFinish
  \/ StaticContextSaveFires
  \/ \E f \in Firings :
       \/ \E t \in scheduled : Fire(f, t)
       \/ ConfigResolved(f) \/ ConfigFailed(f) \/ InterruptJob(f)
       \/ WindowPassed(f) \/ ContextWrite(f)
       \/ \E q \in QueueNames, type \in {"done", "failed"} : JobEnds(q, f, type)
  \/ \E q \in QueueNames : QueueRunNext(q)

\* The engine, its jobs seen from the outside.
Spec == Init /\ [][Next]_vars

\* One job, step by step.
SpecJob == Init /\ [][JobNext]_vars

\* A task of one step, with any canFail its definition may carry and any
\* defaults of the engine.
InitStep ==
  /\ queues = QueueConfigs
  /\ built = "constructed"
  /\ selection = Null
  /\ allConfigs = TaskConfigs
  /\ loadOutcome = "no"
  /\ taskDefs \in [1..1 -> StepDefs]
  /\ taskDefaults \in ErrorDefaults
  /\ TimeNotFollowed
  /\ StoreNotFollowed
  /\ OptionsNotFollowed
  /\ InitJob
  /\ InitEngine

\* An engine with any serialize interval; nothing was written to the static
\* context yet.
InitContext ==
  /\ queues = QueueConfigs
  /\ built = "constructed"
  /\ selection = Null
  /\ allConfigs = TaskConfigs
  /\ loadOutcome = "no"
  /\ taskDefs = Null
  /\ taskDefaults = Null
  /\ serializeInterval \in 0..MaxInterval
  /\ timeoutAge = 0
  /\ quietFor = serializeInterval
  /\ burstWrites = 0
  /\ burstSaves = 0
  /\ StoreNotFollowed
  /\ OptionsNotFollowed
  /\ InitJob
  /\ InitEngine

NextContext ==
  \/ LoadTasks \/ ContextSet \/ Tick \/ SaveTimeout
  \/ ShutdownBegin \/ ShutdownClearTasks \/ ClearTasksStep \/ ShutdownFinish

\* The static context of the loaded tasks, its save timer and the time.
SpecContext == InitContext /\ [][NextContext]_vars

\* A first engine; the file of the static context is missing or holds what
\* an earlier run left for the task.
InitRestart ==
  /\ queues = QueueConfigs
  /\ built = "constructed"
  /\ selection = Null
  /\ allConfigs = TaskConfigs
  /\ loadOutcome = "no"
  /\ taskDefs = Null
  /\ taskDefaults = Null
  /\ TimeNotFollowed
  /\ instance = 1
  /\ staticTaskContext = "null"
  /\ file \in {"missing", "absent", "42"}
  /\ inFlight = {}
  /\ stored = "nothing"
  /\ seen = "nothing"
  /\ OptionsNotFollowed
  /\ InitJob
  /\ InitEngine

NextRestart ==
  \/ LoadContext \/ Store \/ TimerSave \/ ShutdownSave
  \/ WriteOpens \/ WriteCompletes \/ NextInstance

\* The static context of one task from one engine instance to the next.
SpecRestart == InitRestart /\ [][NextRestart]_vars

\* One job of one step, from the step's definition to the job's end.
SpecStep == InitStep /\ [][JobNext]_vars

\* ------------------------------------------------- construction of queues
\* The enabled default queues of one kind among qs.
EnabledDefaults(qs, parallel) ==
  {i \in 1..Len(qs) :
     qs[i].enabled /\ qs[i].isDefault /\ (isParallel(qs[i]) <=> parallel)}

\* _initializeQueues: it throws at the second enabled default of a kind.
initializeQueues(qs) ==
  IF \E parallel \in BOOLEAN : Cardinality(EnabledDefaults(qs, parallel)) > 1
    THEN "threw"
    ELSE "constructed"

\* The configurations of one queue as to its kind, isDefault and enabled.
KindsOf(name) ==
  { [name |-> name, type |-> t, isDefault |-> d, enabled |-> e,
     parallelism |-> IF t = "parallel" THEN 1 ELSE 0,
     capabilities |-> IF t = "cost" THEN 1 ELSE 0,
     allowExclusiveJobs |-> FALSE] :
    t \in {"parallel", "cost"}, d \in BOOLEAN, e \in BOOLEAN }

\* A configuration that passes the schema, before the constructor is called.
InitNew ==
  /\ \E n \in 1..2 :
       /\ queues \in [1..n -> KindsOf("q1") \cup KindsOf("q2")]
       /\ \A i \in 1..n : queues[i].name = <<"q1", "q2">>[i]
  /\ built = "no"
  /\ selection = Null
  /\ allConfigs = TaskConfigs
  /\ loadOutcome = "no"
  /\ taskDefs = Null
  /\ taskDefaults = Null
  /\ TimeNotFollowed
  /\ StoreNotFollowed
  /\ OptionsNotFollowed
  /\ InitJob
  /\ InitEngine

\* new Cameleer(configProvider), as to _initializeQueues.
NewCameleer ==
  /\ built = "no"
  /\ built' = initializeQueues(queues)
  /\ UNCHANGED <<jvars, evars, queues, selection, allConfigs, loadOutcome,
                 taskDefs, taskDefaults, tvars, svars, lvars>>

SpecNew == InitNew /\ [][NewCameleer]_vars

\* ------------------------------------------------------- loading of tasks
LoadNames == {"t1", "t2", "t3"}

\* What getAllTaskConfigs can return: up to three configurations, each with a
\* name, whether a task can be made of it, and whether it is enabled.
LoadConfigs ==
  UNION {[1..n -> [name : LoadNames, valid : BOOLEAN, enabled : BOOLEAN]] :
           n \in 0..Cardinality(LoadNames)}

\* A constructed engine before its first loadTasks.
InitLoad ==
  /\ queues = QueueConfigs
  /\ built = "constructed"
  /\ selection = Null
  /\ allConfigs \in LoadConfigs
  /\ loadOutcome = "no"
  /\ taskDefs = Null
  /\ taskDefaults = Null
  /\ TimeNotFollowed
  /\ StoreNotFollowed
  /\ OptionsNotFollowed
  /\ InitJob
  /\ InitEngine

SpecLoad == InitLoad /\ [][LoadTasks]_vars

\* ------------------------------------------- loadTasks after clearTasks
\* A StandardConfigProvider with two configurations of which tasks can be
\* made; getAllTaskConfigs returns the same objects at every call.
ReloadConfigs ==
  <<[name |-> "t1", valid |-> TRUE], [name |-> "t2", valid |-> TRUE]>>

EnabledOptions == {"function", "true", "false"}

\* A constructed engine before its first loadTasks; enabled of each
\* configuration is a function or a boolean.
InitReload ==
  /\ queues = QueueConfigs
  /\ built = "constructed"
  /\ selection = Null
  /\ allConfigs = ReloadConfigs
  /\ loadOutcome = "no"
  /\ taskDefs = Null
  /\ taskDefaults = Null
  /\ TimeNotFollowed
  /\ StoreNotFollowed
  /\ enabledDefined \in [1..Len(ReloadConfigs) -> EnabledOptions]
  /\ enabledOption = enabledDefined
  /\ enabledCalls = <<>>
  /\ InitJob
  /\ InitEngine

NextReload == LoadTasks \/ ClearTasks \/ ClearTasksStep

SpecReload == InitReload /\ [][NextReload]_vars

\* ------------------------------------------ selection over engines' queues
\* The names of the queues of an engine, in configuration order.
SelectQueueNames == <<"q1", "q2">>

Capabilities == {1, 2, 3}

\* The configurations one queue can be given; parallel queues carry no
\* capabilities and cost queues no parallelism.
QueueConfigsOf(name) ==
  { [name |-> name, type |-> "parallel", isDefault |-> d, enabled |-> TRUE,
     parallelism |-> 1, capabilities |-> 0, allowExclusiveJobs |-> FALSE] :
    d \in BOOLEAN }
  \cup
  { [name |-> name, type |-> "cost", isDefault |-> d, enabled |-> TRUE,
     parallelism |-> 0, capabilities |-> c, allowExclusiveJobs |-> e] :
    d \in BOOLEAN, c \in Capabilities, e \in BOOLEAN }

\* The queue configurations the constructor accepts.
EngineQueues ==
  { qs \in UNION {[1..n -> UNION {QueueConfigsOf(SelectQueueNames[i]) :
                                    i \in 1..Len(SelectQueueNames)}] :
                  n \in 1..Len(SelectQueueNames)} :
      /\ \A i \in 1..Len(qs) : qs[i].name = SelectQueueNames[i]
      /\ initializeQueues(qs) = "constructed" }

\* The firings among 1..k that place sends to queue q, in their order.
RECURSIVE Placed(_, _, _)
Placed(place, q, k) ==
  IF k = 0
    THEN <<>>
    ELSE IF place[k] = q
      THEN Append(Placed(place, q, k - 1), k)
      ELSE Placed(place, q, k - 1)

\* The cost of a job that waits in queue cq: none in a parallel queue.
WaitingCost(cq) == IF isParallel(cq) THEN Null ELSE Num(1)

\* The engine after it loaded a task that allows multiple instances and
\* submitted the job of each of its first k firings to a queue selected for
\* it; the queues are paused as constructed.
JobsSubmitted ==
  /\ \E k \in 0..MaxFirings : \E place \in [1..k -> QueueNames] :
       /\ \A f \in 1..k :
            Appropriate([cost |-> WaitingCost(QueueConf(place[f]))],
                        QueueConf(place[f]))
       /\ tasksLoaded = {Task("t1", TRUE)}
       /\ scheduled = {Task("t1", TRUE)}
       /\ clearing = NotClearing
       /\ paused = [q \in QueueNames |-> TRUE]
       /\ backlog = [q \in QueueNames |-> Placed(place, q, k)]
       /\ currentJobs = [q \in QueueNames |-> {}]
       /\ fpc = [f \in Firings |-> IF f <= k THEN "returned" ELSE "unfired"]
       /\ ftask = [f \in Firings |-> IF f <= k THEN Task("t1", TRUE) ELSE Null]
       /\ fconf = [f \in Firings |-> Null]
       /\ jobState = [f \in Firings |-> IF f <= k THEN "queued" ELSE "none"]
       /\ jobQueue = [f \in Firings |-> IF f <= k THEN place[f] ELSE Null]
       /\ jobCost = [f \in Firings |->
                      IF f <= k THEN WaitingCost(QueueConf(place[f])) ELSE Null]
       /\ numSubmitted = [f \in Firings |-> IF f <= k THEN 1 ELSE 0]
       /\ runSub = [f \in Firings |-> f <= k]
       /\ raceSub = [f \in Firings |-> IF f <= k THEN "both" ELSE "none"]
       /\ workEvents = [f \in Firings |->
                         IF f <= k THEN <<"scheduled">> ELSE <<>>]
       /\ interruptableJobs = {}
       /\ keepAliveInterval = TRUE
       /\ staticContextSaveTimeout = FALSE
       /\ pauseWaitOpen = FALSE
       /\ shutdownPc = "none"

\* An engine that was constructed with any queues it accepts, with its jobs
\* submitted.
InitSelect ==
  /\ queues \in EngineQueues
  /\ built = "constructed"
  /\ selection = Null
  /\ allConfigs = TaskConfigs
  /\ loadOutcome = "resolved"
  /\ taskDefs = Null
  /\ taskDefaults = Null
  /\ TimeNotFollowed
  /\ StoreNotFollowed
  /\ OptionsNotFollowed
  /\ InitJob
  /\ JobsSubmitted

\* The sequences without repetition over the names in S.
RECURSIVE NameLists(_)
NameLists(S) ==
  {<<>>} \cup UNION {{<<n>> \o rest : rest \in NameLists(S \ {n})} : n \in S}

\* The cost and queues a task's configuration can resolve to.
SelectConfigs ==
  { [skip |-> FALSE, allowMultiple |-> TRUE, interruptTimeoutSecs |-> Null,
     cost |-> c, queues |-> qs] :
    c \in {Null, Num(1), Num(2)}, qs \in NameLists(QueueNames) }

\* One call of _selectBestMatchingQueue, with what it returned.
Select(config) ==
  /\ built = "constructed"
  /\ selection = Null
  /\ \E impl \in SortImpls :
       selection' = [config |-> config,
                     queue |-> selectBestMatchingQueue(config, impl)]
  /\ UNCHANGED <<jvars, evars, queues, built, allConfigs, loadOutcome,
                 taskDefs, taskDefaults, tvars, svars, lvars>>

NextSelect == \E config \in SelectConfigs : Select(config)

SpecSelect == InitSelect /\ [][NextSelect]_vars

\* ------------------------------------- selection, queues enabled or not
\* The queue configurations the constructor accepts, any queue enabled or
\* not.
EngineQueuesOfAnyKind ==
  { qs \in UNION {[1..n -> UNION {KindsOf(SelectQueueNames[i]) :
                                    i \in 1..Len(SelectQueueNames)}] :
                  n \in 1..Len(SelectQueueNames)} :
      /\ \A i \in 1..Len(qs) : qs[i].name = SelectQueueNames[i]
      /\ initializeQueues(qs) = "constructed" }

\* A constructed engine with its tasks loaded and no job submitted yet.
InitEnabled ==
  /\ queues \in EngineQueuesOfAnyKind
  /\ built = "constructed"
  /\ selection = Null
  /\ allConfigs = TaskConfigs
  /\ loadOutcome = "resolved"
  /\ taskDefs = Null
  /\ taskDefaults = Null
  /\ TimeNotFollowed
  /\ StoreNotFollowed
  /\ OptionsNotFollowed
  /\ InitJob
  /\ InitEngine

SpecEnabled == InitEnabled /\ [][NextSelect]_vars

\* The engine of Init with its jobs submitted.
InitPause ==
  /\ queues = QueueConfigs
  /\ built = "constructed"
  /\ selection = Null
  /\ allConfigs = TaskConfigs
  /\ loadOutcome = "resolved"
  /\ taskDefs = Null
  /\ taskDefaults = Null
  /\ TimeNotFollowed
  /\ StoreNotFollowed
  /\ OptionsNotFollowed
  /\ InitJob
  /\ JobsSubmitted

JobEnding ==
  \E q \in QueueNames, f \in Firings, type \in {"done", "failed"} :
    JobEnds(q, f, type)

NextPause ==
  \/ Run \/ Pause \/ PauseWait
  \/ \E q \in QueueNames : QueueRunNext(q)
  \/ JobEnding

\* The queues at work between run, pause and pauseWait; every job that runs
\* terminates.
SpecPause == InitPause /\ [][NextPause]_vars /\ WF_vars(JobEnding)


\* ------------------------------------------------------------------ C1
JobsOf(t, states) ==
  {f \in Firings : jobState[f] \in states /\ ftask[f] = t}

TasksOfJobs == {ftask[f] : f \in {g \in Firings : jobState[g] # "none"}}

\* C1: for a task with allowMultiple = false there is never more than one
\* job of the task queued or running, whatever the interleaving of firings
\* with config resolution and interruption windows.
C1_SingleInstance ==
  \A t \in TasksOfJobs :
    ~t.allowMultiple => Cardinality(JobsOf(t, {"queued", "running"})) <= 1

\* ------------------------------------------------------------------ C2
TerminalEvents(f) ==
  Cardinality({i \in 1..Len(workEvents[f]) : workEvents[f][i] \in {"done", "failed"}})

\* C2: a submitted job has no terminal work event (done or failed) before
\* it ended and exactly one once it ended, whatever the other jobs on its
\* queue do.
C2_OneTerminalEvent ==
  \A f \in Firings :
    numSubmitted[f] > 0 =>
      /\ TerminalEvents(f) <= 1
      /\ jobState[f] \in {"done", "failed"} <=> TerminalEvents(f) = 1

\* ------------------------------------------------------------------ C3
\* C3: a firing submits at most one job to a queue.
C3_OneJobPerFiring == \A f \in Firings : numSubmitted[f] <= 1

\* Two firings ran through _enqueueTask and each submitted its one job.
C3_Witness ==
  \E f, g \in Firings :
    /\ f # g
    /\ fpc[f] = "returned" /\ numSubmitted[f] = 1
    /\ fpc[g] = "returned" /\ numSubmitted[g] = 1

\* ------------------------------------------------------------------ C4
\* C4: every Run Attempt invokes the step body at most 1 + maxNumFails times
\* (the regular attempt plus the recovery attempts).
C4_InvocationsWithinBudget ==
  \A i \in 1..Len(stepLog) :
    stepLog[i].invocations <= 1 + tasks[i].maxNumFails

\* A recovery loop that used its whole budget of at least two retries.
C4_Witness ==
  \E i \in 1..Len(stepLog) :
    /\ tasks[i].maxNumFails >= 2
    /\ stepLog[i].invocations = 1 + tasks[i].maxNumFails
    /\ stepLog[i].exit \in {"finalFail", "continue"}

\* ------------------------------------------------------------------ C5
FailedFinally(i) == stepLog[i].exit \in {"finalFail", "continue"}

\* C5: once step i failed finally with continueOnFinalFail = false, no later
\* step has been started and the job has failed.
C5_FailFast ==
  \A i \in 1..Len(stepLog) :
    (FailedFinally(i) /\ ~tasks[i].continueOnFinalFail)
      => /\ Len(stepLog) = i
         /\ jobPc = "failed"
         /\ Len(results) = i - 1

\* The first of two steps exhausted its recovery and must not continue.
C5_Witness ==
  /\ Len(tasks) = 2
  /\ Len(stepLog) = 1
  /\ stepLog[1].exit = "finalFail"
  /\ stepLog[1].invocations > 1
  /\ ~tasks[1].continueOnFinalFail
  /\ jobPc = "failed"

\* ------------------------------------------------------------------ C6
\* C6: a completed job has a result for every step, and results[i].isError
\* holds exactly for the steps that returned by skip or continue-on-final-fail.
C6_ResultPerStep ==
  jobPc = "done" =>
    /\ Len(results) = Len(tasks)
    /\ \A i \in 1..Len(tasks) :
         isError(results[i]) <=> stepLog[i].exit \in {"skip", "continue"}

\* A completed two-step job with one error result and one value result.
C6_Witness ==
  /\ jobPc = "done"
  /\ Len(tasks) = 2
  /\ stepLog[1].exit = "continue"
  /\ isError(results[1])
  /\ stepLog[2].exit = "recovered"
  /\ ~isError(results[2])

\* ------------------------------------------------------------------ C7
\* C7: at most one invocation of the step body is outstanding at any time,
\* and none is outstanding unless the regular or a recovery attempt runs.
C7_OneAttemptInFlight ==
  /\ outstanding <= 1
  /\ outstanding = 1 <=> (raPc = "regular" \/ (raPc = "recovery" /\ isAttempting))

\* A recovery firing arrived while a recovery attempt was outstanding.
C7_Witness ==
  /\ raPc = "recovery"
  /\ isAttempting
  /\ outstanding = 1
  /\ stepLog[Len(stepLog)].dropped

\* ------------------------------------------------------------------ C8
InRecovery == jobPc = "running" /\ raPc = "recovery"

RecoveryEnds == InRecovery /\ ~(jobPc' = "running" /\ raPc' = "recovery")

BudgetReached ==
  RecoveryFailed /\ numSubSequentFails + 1 = canFail.maxNumFails

ScheduleErrorApplies ==
  \/ ScheduleErrored /\ ~isAttempting
  \/ RecoveryFailed /\ scheduleFailed

ScheduleCompleteApplies ==
  \/ ScheduleCompleted /\ ~isAttempting
  \/ RecoveryFailed /\ scheduleDrained

\* C8: a step of the recovery loop ends the loop exactly when a retry
\* succeeds, the budget is reached, the schedule has errored, or the schedule
\* has completed; an error or completion that arrives during an attempt
\* applies when that attempt fails.
C8_ExhaustiveRecoveryExit ==
  [][InRecovery =>
       (RecoveryEnds <=> \/ RecoverySucceeded
                         \/ BudgetReached
                         \/ ScheduleErrorApplies
                         \/ ScheduleCompleteApplies)]_vars

\* The loop ended because the schedule errored during an attempt that failed
\* with budget left.
C8_Witness ==
  /\ jobPc = "done"
  /\ \E i \in 1..Len(results) :
       /\ results[i] = fromError("scheduleFailed")
       /\ stepLog[i].invocations <= tasks[i].maxNumFails

\* ------------------------------------------------------------------ C11
QueueEvents(f) ==
  {i \in 1..Len(workEvents[f]) : workEvents[f][i] \in {"run", "done", "failed"}}

\* C11: a job that interruptJob took out of its interruption window was not
\* and is never submitted to a queue, and no run, done or failed work event
\* is ever emitted for it.
C11_InterruptedNeverRuns ==
  [][\A f \in Firings :
       /\ jobState[f] = "interrupted" => jobState'[f] = "interrupted"
       /\ jobState'[f] = "interrupted" =>
            /\ numSubmitted'[f] = 0
            /\ jobQueue'[f] = Null
            /\ \A q \in QueueNames :
                 f \notin SeqToSet(backlog'[q]) \cup currentJobs'[q]
            /\ QueueEvents(f)' = {}]_vars

\* A job was interrupted in its window and the engine went on to run and
\* end a job of a later firing.
C11_Witness ==
  \E f, g \in Firings :
    /\ jobState[f] = "interrupted"
    /\ workEvents[f] = <<"scheduled", "interruptable">>
    /\ f < g /\ jobState[g] \in {"done", "failed"}

\* ------------------------------------------------------------------ C12
\* C12: interruptJob throws for every job that is not in its interruption
\* window: one whose timer expired, one that was interrupted before and one
\* that never had a window.
C12_FailsOutsideWindow ==
  \A f \in Firings :
    (jobState[f] # "none" /\ fpc[f] # "window") => ~isJobInterruptable(f)

\* One job was interrupted, another one went past its admission into a
\* queue; neither is pending interruption.
C12_Witness ==
  \E f, g \in Firings :
    /\ jobState[f] = "interrupted" /\ ~isJobInterruptable(f)
    /\ jobState[g] \in {"queued", "running"} /\ ~isJobInterruptable(g)

\* ------------------------------------------------------------------ C9
\* C9: once shutdown has resolved no queue is working, none of the engine's
\* timers (keep-alive, static-context save, interruption windows) is armed
\* and no task schedule is registered.
C9_QuietAfterShutdown ==
  shutdownPc = "resolved" =>
    /\ \A q \in QueueNames : ~isWorking(q)
    /\ ~keepAliveInterval
    /\ ~staticContextSaveTimeout
    /\ interruptableJobs = {}
    /\ scheduled = {}

\* ------------------------------------------------------------------ C10
StaysOrRuns(f) == jobState[f] = "queued" => jobState'[f] \in {"queued", "running"}

RunsToItsEnd(f) ==
  jobState[f] = "running" => jobState'[f] \in {"running", "done", "failed"}

\* C10 as stated: no operation of the engine removes a submitted job before
\* it has run.
C10_NeverRemoved == [][\A f \in Firings : StaysOrRuns(f) /\ RunsToItsEnd(f)]_vars

\* C10: a submitted job leaves its queue's backlog only by being started or
\* by clearTasks clearing the backlogs, on its own or within shutdown; pause
\* and pauseWait remove nothing, and a started job ends as done or failed.
C10_RemovedOnlyByClearTasks ==
  [][\A f \in Firings :
       /\ RunsToItsEnd(f)
       /\ StaysOrRuns(f)
          \/ (jobState'[f] = "cleared" /\ (ClearTasks \/ ShutdownClearTasks))]_vars

\* clearTasks dropped one queued job while another job had run to its end.
C10_Witness ==
  \E f, g \in Firings :
    /\ jobState[f] = "cleared"
    /\ jobState[g] \in {"done", "failed"}

C22_FailurePublished ==
  \A f \in Firings :
    /\ "done" \in SeqToSet(workEvents[f]) => jobState[f] = "done"
    /\ jobState[f] = "failed" => "failed" \in SeqToSet(workEvents[f])

\* -------------------------------------------------------------------- C23
MustNotFail == [kind |-> "boolean", bool |-> FALSE, rec |-> NoKeys]

\* A job whose step is defined with canFail = false ended after the body threw.
MustNotFailThrew ==
  /\ taskDefs # Undefined
  /\ taskDefs[1] = MustNotFail
  /\ regularAttemptFailed
  /\ jobPc \in {"done", "failed"}

SkipOnly == [kind |-> "record", bool |-> FALSE,
             rec |-> [NoKeys EXCEPT !.skip = <<TRUE>>]]

Decided(f) == fpc[f] \notin {"unfired", "resolving"}

\* C25: firings of one task are decided in the order they were received: when
\* a later firing has its admit-or-abort decision, every earlier one has its
\* own, and when a later firing has submitted its job, every earlier one has
\* submitted its job or returned without one.
C25_DecisionsInFiringOrder ==
  \A a, b \in Firings :
    (a < b /\ fpc[b] # "unfired" /\ ftask[a] = ftask[b]) =>
      /\ Decided(b) => Decided(a)
      /\ numSubmitted[b] > 0 => fpc[a] = "returned"

\* -------------------------------------------------------------------- C26
\* C26: a burst of writes to the static context, each within the serialize
\* interval of the one before, makes the save timer write to disk at most
\* once, and the timer writes only when a full interval has passed since the
\* last write to the context. (The save of shutdown is shutdown's, not the
\* burst's.)
C26_Debounced ==
  /\ [][burstSaves' # burstSaves =>
          (burstSaves' = 0 \/ quietFor >= serializeInterval)]_vars
  /\ [](burstSaves \in {0, 1})

\* A burst of two writes, under an interval of two ticks, was saved once, two
\* ticks after its second write.
C26_Witness ==
  /\ serializeInterval = 2
  /\ burstWrites = 2
  /\ burstSaves = 1
  /\ quietFor = 2
  /\ ~staticContextSaveTimeout
  /\ shutdownPc = "none"

\* -------------------------------------------------------------------- C27
\* C27: a JSON value that the task stored last in the first engine is what
\* the task of the same class and name finds in the second engine, which
\* loaded its tasks after the shutdown of the first one resolved.
C27_ContextSurvives ==
  (instance = 2 /\ seen # "nothing" /\ stored # "nothing" /\ IsJson(stored)) =>
    seen = stored

\* -------------------------------------------------------------------- C28
AllPaused == \A q \in QueueNames : paused[q]

AllIdle == \A q \in QueueNames : isIdle(q)

\* C28: a pauseWait that waits resolves only in a step that leaves every
\* queue idle; and while it waits for running jobs under paused queues, the
\* jobs terminating, it does resolve, unless the queues are resumed before,
\* whatever waits in the backlogs.
C28_PauseWaitResolves ==
  /\ [][(pauseWaitOpen /\ ~pauseWaitOpen') =>
          \A q \in QueueNames : currentJobs'[q] = {}]_vars
  /\ ((pauseWaitOpen /\ AllPaused /\ ~AllIdle)
        ~> (~pauseWaitOpen \/ ~AllPaused))

\* pauseWait was called with a job running and another waiting behind it in
\* the backlog of the same queue, and it waits.
C28_Witness ==
  /\ pauseWaitOpen
  /\ AllPaused
  /\ jobState[1] = "running"
  /\ jobState[2] = "queued"
  /\ jobQueue[2] = jobQueue[1]

\* -------------------------------------------------------------------- C29
ScheduleEndedInAttempt == InRecovery /\ recSched.ended # "no"

\* C29: when the recovery schedule errors or completes while a recovery
\* attempt is outstanding, that step leaves the loop running with the attempt
\* still outstanding; from then on the loop ends only in the step in which
\* the attempt returns.
C29_EndAppliesAfterAttempt ==
  /\ [][(InRecovery /\ isAttempting /\ (ScheduleErrored \/ ScheduleCompleted))
          => (InRecovery' /\ isAttempting' /\ outstanding' = 1)]_vars
  /\ [](ScheduleEndedInAttempt => (isAttempting /\ outstanding = 1))
  /\ [][(ScheduleEndedInAttempt /\ RecoveryEnds)
          => (RecoverySucceeded \/ RecoveryFailed)]_vars

\* The schedule completed while the attempt of its last firing was
\* outstanding; the attempt went on and succeeded, and the job is done.
C29_Witness ==
  /\ jobPc = "done"
  /\ Len(tasks) = 1
  /\ scheduleDrained
  /\ recSched.ended = "complete"
  /\ stepLog[1].exit = "recovered"
  /\ results = <<fromValue("value")>>

\* -------------------------------------------------------------------- C30
\* The ways a RunAttempt returns a Result.
ResultExits == {"ok", "skip", "continue", "recovered"}

InProgress == {i \in 1..Len(stepLog) : stepLog[i].exit = "pending"}

\* C30: the job goes on to step i+1 only in the step in which the RunAttempt
\* of step i returns its Result, with no invocation of step i outstanding and
\* the body of step i+1 not yet invoked; every step before the one in
\* progress has returned a Result that is in results, and never are two steps
\* in progress.
C30_StepsInSequence ==
  /\ [][fTaskNumber' # fTaskNumber =>
          /\ fTaskNumber' = fTaskNumber + 1
          /\ stepLog[fTaskNumber].exit = "pending"
          /\ stepLog'[fTaskNumber].exit \in ResultExits
          /\ Len(results') = fTaskNumber
          /\ outstanding' = 0
          /\ stepLog'[fTaskNumber'].invocations = 0]_vars
  /\ [](\A i \in 1..Len(stepLog) :
          (i < Len(stepLog) \/ jobPc = "done") =>
            /\ stepLog[i].exit \in ResultExits
            /\ Len(results) >= i)
  /\ [](Cardinality(InProgress) <= 1)

\* The first step went through its recovery loop, two retries of it, before
\* it returned; the body of the second step was then invoked.
C30_Witness ==
  /\ jobPc = "running"
  /\ Len(stepLog) = 2
  /\ stepLog[1].exit = "recovered"
  /\ stepLog[1].invocations = 3
  /\ stepLog[2].invocations = 1
  /\ outstanding = 1

\* ------------------------------------------------------------------ C31
\* The Results a Run Attempt can return on each of its exits.
RecoveryErrors ==
  {"maxRetries", "noMoreRetries", "scheduleFailed", "scheduleError",
   "noMoreScheduled"}

ResultsOfExit(exit) ==
  IF exit \in {"ok", "recovered"} THEN {fromValue("value")}
  ELSE IF exit = "skip" THEN {fromError("thrown")}
  ELSE IF exit = "continue" THEN {fromError(e) : e \in RecoveryErrors}
  ELSE {}

Returned == {i \in 1..Len(stepLog) : stepLog[i].exit \in ResultExits}

\* C31: at every moment of a job, results has exactly one entry for each step
\* whose Run Attempt returned a Result, results[i] being the Result of step i;
\* a step that ended the job has no entry.
C31_ResultsInStepOrder ==
  /\ Returned = 1..Len(results)
  /\ \A i \in Returned : results[i] \in ResultsOfExit(stepLog[i].exit)
  /\ jobPc = "failed" => Len(results) = Len(stepLog) - 1

\* A job whose first step returned an error Result by skip and whose second
\* step ended the job after its recovery: results holds the first only.
C31_Witness ==
  /\ jobPc = "failed"
  /\ Len(tasks) = 2
  /\ Len(stepLog) = 2
  /\ stepLog[1].exit = "skip"
  /\ stepLog[2].exit = "finalFail"
  /\ stepLog[2].invocations > 1
  /\ results = <<fromError("thrown")>>

\* -------------------------------------------------------------------- C32
\* new CameleerJob(task, config, schedEvent) in this step.
JobBuilt(f) == jobState[f] = "none" /\ jobState'[f] = "created"

\* The job enters the map of interruptable jobs in this step.
WindowOpened(f) == f \notin interruptableJobs /\ f \in interruptableJobs'

InterruptablePublished(f) ==
  /\ Len(workEvents'[f]) = Len(workEvents[f]) + 1
  /\ workEvents'[f][Len(workEvents'[f])] = "interruptable"

\* C32 as stated: an interruption window is opened, and an interruptable
\* event published for the job, only when the job's resolved
\* interruptTimeoutSecs is not null.
C32_AsStated ==
  [][\A f \in Firings :
       (WindowOpened(f) \/ InterruptablePublished(f))
         => fconf'[f].interruptTimeoutSecs # Null]_vars

\* C32: an interruption window is opened only for a job that is being built
\* and whose resolved interruptTimeoutSecs is not null, and for every such
\* job; the interruptable event is published for every job that is built,
\* with or without a window, and for nothing else.
C32_WindowOnlyWithTimeout ==
  [][\A f \in Firings :
       /\ WindowOpened(f) => JobBuilt(f)
       /\ InterruptablePublished(f) <=> JobBuilt(f)
       /\ JobBuilt(f) =>
            (WindowOpened(f) <=> fconf'[f].interruptTimeoutSecs # Null)]_vars

\* Two jobs were built and have their interruptable events: one without a
\* timeout, going on with no window, and one waiting in its window.
C32_Witness ==
  \E f, g \in Firings :
    /\ fpc[f] = "ready"
    /\ fconf[f].interruptTimeoutSecs = Null
    /\ f \notin interruptableJobs
    /\ workEvents[f] = <<"scheduled", "interruptable">>
    /\ fpc[g] = "window"
    /\ fconf[g].interruptTimeoutSecs # Null
    /\ g \in interruptableJobs
    /\ workEvents[g] = <<"scheduled", "interruptable">>

\* -------------------------------------------------------------------- C33
CanFailTrue == [kind |-> "boolean", bool |-> TRUE, rec |-> NoKeys]

\* C33: a step defined with canFail = true gets an error config whose
\* continueOnFinalFail is true and whose schedule, maxNumFails and skip are
\* those of the engine's defaults.
C33_CanFailTrue ==
  (taskDefs # Undefined /\ taskDefs[1] = CanFailTrue /\ jobPc # "new") =>
    tasks[1] = [continueOnFinalFail |-> TRUE,
                schedule |-> taskDefaults.schedule,
                maxNumFails |-> taskDefaults.maxNumFails,
                skip |-> taskDefaults.skip]

\* canFail = true over defaults that would not continue: the step used the
\* retries of the defaults and the job went on with its error.
C33_Witness ==
  /\ taskDefs # Undefined
  /\ taskDefs[1] = CanFailTrue
  /\ ~taskDefaults.continueOnFinalFail
  /\ ~taskDefaults.skip
  /\ taskDefaults.maxNumFails = MaxNumFails
  /\ jobPc = "done"
  /\ tasks[1].continueOnFinalFail
  /\ stepLog[1].invocations = 1 + MaxNumFails
  /\ results = <<fromError("maxRetries")>>

\* -------------------------------------------------------------------- C34
RecognizedKeys == {"schedule", "maxNumFails", "skip", "continueOnFinalFail"}

C35_EvaluatedOncePerLoad ==
  /\ \A k \in 1..Len(enabledCalls) :
       \A i \in 1..Len(allConfigs) :
         enabledDefined[i] = "function" => enabledCalls[k][i] = 1
  /\ clearing = NotClearing => scheduled = tasksLoaded

\* -------------------------------------------------------------------- C36
\* A call of fs.writeFile made in this step by the callback of the save timer.
TimerWriteStarted == \E w \in inFlight' \ inFlight : w.by = "timer"

\* The final saves that shutdown started in this step.
FinalSavesStarted == {w \in inFlight' \ inFlight : w.by = "shutdown"}

\* C36: from the moment shutdown runs, the save timer of the static context
\* is not armed and no write of the static context is started by the timer;
\* shutdown itself attempts one final save of a loaded context.
C36_TimerCancelledOnShutdown ==
  [][/\ shutdownPc' # "none" => ~staticContextSaveTimeout'
     /\ TimerWriteStarted => shutdownPc = "none"
     /\ (shutdownPc = "none" /\ shutdownPc' = "saving")
          => Cardinality(FinalSavesStarted) = 1]_vars

\* -------------------------------------------------------------------- C37
\* addJob is called for the job of firing f in this step.
SubmittedNow(f) == numSubmitted'[f] > numSubmitted[f]

\* C37: once a clearTasks call has completed, no job of a task that it
\* removed is submitted to a queue, whatever the firing of that job was doing
\* when clearTasks ran: while no clearTasks is under way, a job is submitted
\* only for a task that is loaded.
C37_NoSubmissionAfterClearTasks ==
  [][\A f \in Firings :
       (SubmittedNow(f) /\ clearing = NotClearing)
         => ftask[f] \in tasksLoaded]_vars

\* -------------------------------------------------------------------- C38
ScheduleReleased(sched) == ~sched.registered /\ ~sched.subscribed

\* The steps whose Run Attempt has returned or thrown.
Ended == {i \in 1..Len(stepLog) : stepLog[i].exit # "pending"}

\* C38: whenever the recovery loop of a Run Attempt ends, by a retry that
\* succeeds, the budget, an error of the schedule or its completion, the
\* recovery schedule is removed from its scheduler and the subscription
\* released, they stay so, and the body of a step whose Run Attempt has ended
\* is not invoked again.
C38_RecoveryReleased ==
  /\ [][RecoveryEnds => ScheduleReleased(recSched')]_vars
  /\ [](~InRecovery => ScheduleReleased(recSched))
  /\ [][\A i \in Ended :
          stepLog'[i].invocations = stepLog[i].invocations]_vars

\* A job whose last step ended its recovery loop by a retry that succeeded
\* after a failed one, the schedule having completed during the retry.
C38_Witness ==
  /\ jobPc = "done"
  /\ Len(tasks) > 0
  /\ Len(stepLog) = Len(tasks)
  /\ stepLog[Len(stepLog)].exit = "recovered"
  /\ stepLog[Len(stepLog)].invocations = 3
  /\ recSched.ended = "complete"
  /\ ScheduleReleased(recSched)

\* -------------------------------------------------------------------- C39
\* The work events of a firing and its job, in their order, ending with the
\* given terminal event.
EventOrder(type) == <<"scheduled", "interruptable", "run", type>>

InOrder(events) ==
  \E type \in {"done", "failed"} :
    events = SubSeq(EventOrder(type), 1, Len(events))

Extends(later, earlier) ==
  /\ Len(later) >= Len(earlier)
  /\ SubSeq(later, 1, Len(earlier)) = earlier

\* C39: the work events of every firing and its job appear in the order
\* scheduled, interruptable, run, then done or failed, each at most once: run
\* never comes after the terminal event and nothing comes before scheduled;
\* events are only ever added at the end, and the job has its run event
\* exactly when it has been started.
C39_EventsInOrder ==
  /\ [](\A f \in Firings :
          /\ InOrder(workEvents[f])
          /\ Len(workEvents[f]) >= 3
               <=> jobState[f] \in {"running", "done", "failed"})
  /\ [][\A f \in Firings : Extends(workEvents'[f], workEvents[f])]_vars

\* A job failed with all of its events while a later job on the same queue
\* has been started.
C39_Witness ==
  \E f, g \in Firings :
    /\ f # g
    /\ workEvents[f] = EventOrder("failed")
    /\ jobState[g] = "running"
    /\ workEvents[g] = <<"scheduled", "interruptable", "run">>
    /\ jobQueue[f] = jobQueue[g]

\* -------------------------------------------------------------------- C40
\* C40: queue selection never returns a queue that is configured with
\* enabled = false, neither as the default queue nor as a queue the task
\* names.
C40_DisabledNeverSelected ==
  (selection # Null /\ selection.queue # Null)
    => QueueConf(selection.queue[1]).enabled

DefaultsHeld(parallel) ==
  {i \in 1..Len(queues) :
     queues[i].isDefault /\ (isParallel(queues[i]) <=> parallel)}

\* C18: a constructed engine holds at most one default queue of each kind; a
\* configuration with two default queues of one kind makes the constructor
\* fail.
C18_OneDefaultPerKind ==
  \A parallel \in BOOLEAN :
    /\ built = "constructed" => Cardinality(DefaultsHeld(parallel)) <= 1
    /\ (built # "no" /\ Cardinality(DefaultsHeld(parallel)) > 1) =>
         built = "threw"

\* ---------------------------------------------------------------- C19-C20
\* C19: the names of the loaded tasks are pairwise distinct, and a loadTasks
\* over configurations of which two share a name is refused and loads and
\* schedules none of them.
C19_NamesDistinct ==
  /\ \A t, u \in tasksLoaded : t.name = u.name => t = u
  /\ (loadOutcome # "no" /\ NamesNotUnique(allConfigs)) =>
       /\ loadOutcome = "rejected"
       /\ tasksLoaded = {}
       /\ scheduled = {}

\* Three configurations, each of them good for an enabled task, were refused
\* for the one name that two of them share.
C19_Witness ==
  /\ loadOutcome = "rejected"
  /\ Len(allConfigs) = 3
  /\ \A i \in 1..3 : allConfigs[i].valid /\ allConfigs[i].enabled
  /\ allConfigs[1].name # allConfigs[2].name
  /\ allConfigs[3].name = allConfigs[1].name
  /\ tasksLoaded = {}

\* C20: after a loadTasks over configurations of distinct names, every
\* configuration that makes an enabled task has its task loaded and scheduled,
\* whatever became of the others.
C20_OthersStillLoaded ==
  (loadOutcome # "no" /\ ~NamesNotUnique(allConfigs)) =>
    \A i \in 1..Len(allConfigs) :
      (allConfigs[i].valid /\ allConfigs[i].enabled) =>
        \E t \in tasksLoaded \cap scheduled : t.name = allConfigs[i].name

\* ---------------------------------------------------------------- C13-C16
\* The queues of the engine, and their places in the configuration.
QueueIndex(name) == CHOOSE i \in 1..Len(queues) : queues[i].name = name

\* The queues the task names that the engine finds appropriate.
Candidates(config) ==
  {cq \in SeqToSet(queues) :
     Appropriate(config, cq) /\ cq.name \in SeqToSet(config.queues)}

\* Appropriateness as stated: cost <= capabilities, or exclusive jobs allowed.
AppropriateAsStated(config, cq) ==
  IF config.cost # Null
    THEN /\ ~isParallel(cq)
         /\ (config.cost[1] <= cq.capabilities \/ cq.allowExclusiveJobs)
    ELSE isParallel(cq)

\* C13: a queue is appropriate exactly when the task has a cost, the queue is
\* a cost queue and cost <= capabilities or the queue allows exclusive jobs,
\* or the task has no cost and the queue is parallel; so a selection returns
\* an appropriate queue, and fails only if the task names no appropriate
\* queue and, its list being empty, no appropriate queue is a default.
C13_AppropriateAsStated ==
  selection # Null =>
    LET config == selection.config
        usable == {cq \in SeqToSet(queues) :
                     /\ AppropriateAsStated(config, cq)
                     /\ \/ cq.name \in SeqToSet(config.queues)
                        \/ config.queues = <<>> /\ cq.isDefault}
    IN /\ selection.queue # Null =>
            AppropriateAsStated(config, QueueConf(selection.queue[1]))
       /\ selection.queue = Null => usable = {}

\* capabilities / max(load, 1), as a ratio.
FavorabilityAsStated(cq) ==
  LET l == load(cq.name)
  IN IF l[1] > l[2] THEN <<cq.capabilities * l[2], l[1]>>
                    ELSE <<cq.capabilities, 1>>

\* C14: for a task with a cost that names queues, the queue returned has the
\* highest capabilities / max(load, 1) among the appropriate queues it names.
C14_HighestFavorability ==
  (/\ selection # Null
   /\ selection.config.cost # Null
   /\ selection.config.queues # <<>>
   /\ selection.queue # Null) =>
    \A cq \in Candidates(selection.config) :
      ~Less(FavorabilityAsStated(QueueConf(selection.queue[1])),
            FavorabilityAsStated(cq))

\* Whether two candidates are tied on the ordering key.
Tied(config, cq1, cq2) ==
  IF config.cost # Null
    THEN /\ ~Less(FavorabilityAsStated(cq1), FavorabilityAsStated(cq2))
         /\ ~Less(FavorabilityAsStated(cq2), FavorabilityAsStated(cq1))
    ELSE /\ ~Less(load(cq1.name), load(cq2.name))
         /\ ~Less(load(cq2.name), load(cq1.name))

\* C15: of the candidates tied with the queue returned, the queue returned
\* comes first in the engine's queue configuration.
C15_TieByConfigurationOrder ==
  (/\ selection # Null
   /\ selection.config.queues # <<>>
   /\ selection.queue # Null) =>
    \A cq \in Candidates(selection.config) :
      Tied(selection.config, QueueConf(selection.queue[1]), cq) =>
        QueueIndex(selection.queue[1]) <= QueueIndex(cq.name)

\* The appropriate default queues of the engine.
AppropriateDefaults(config) ==
  {cq \in SeqToSet(queues) : Appropriate(config, cq) /\ cq.isDefault}

====
